---- MODULE Spec2Model ----
(***************************************************************************)
(* Model of the sports-betting frontend: the odds-to-outcome probability   *)
(* engine, generateMissingMarkets, oddsToProbabilities and                 *)
(* convertMarketToAPI (utils/marketGenerator), oddsToScoreProbabilities /  *)
(* oddsToScoreProbabilitiesWithTotals (utils/oddsConverter), and the       *)
(* betslip, balance and bet handlers and the odds feed (leagues, fetchOdds  *)
(* and its cache) of the App component.                                    *)
(*                                                                         *)
(* A JavaScript number is modelled as an exact rational [n, d] in lowest   *)
(* terms (d > 0), so "sums to 1" and "equal" mean exact real arithmetic;   *)
(* floating-point rounding is outside the model.  An absent optional       *)
(* property is the value Undefined.                                        *)
(***************************************************************************)
EXTENDS Integers, Sequences, FiniteSets, TLC

\* ------------------------------------------------------------------------
\* Bounds of the model
\* ------------------------------------------------------------------------
\* win-market odds are the integers 2..MaxH2hOdds
MaxH2hOdds == 3
\* over/under and yes/no odds are the half-steps 3/2 .. MaxBinaryOddsHalves/2
MaxBinaryOddsHalves == 4
\* totals points are the half-steps 2 .. MaxPointHalves/2
MaxPointHalves == 5

\* ------------------------------------------------------------------------
\* JavaScript values: numbers as exact rationals, undefined
\* ------------------------------------------------------------------------
Undefined == [undef |-> TRUE]

Abs(x) == IF x < 0 THEN -x ELSE x

RECURSIVE GCD(_, _)
GCD(a, b) == IF b = 0 THEN a ELSE GCD(b, a % b)

\* the rational n/d (d > 0) in lowest terms
R(n, d) ==
  LET g == GCD(Abs(n), d)
  IN  [n |-> n \div g, d |-> d \div g]

Zero == [n |-> 0, d |-> 1]
One == [n |-> 1, d |-> 1]
\* the non-finite numbers: results of a division by zero
NaN == [nan |-> TRUE]
Infinity == [inf |-> 1]
NegInfinity == [inf |-> -1]

IsFinite(x) == "d" \in DOMAIN x

\* -1, 0 or 1 (x is not NaN)
Sign(x) ==
  IF IsFinite(x) THEN (IF x.n > 0 THEN 1 ELSE IF x.n < 0 THEN -1 ELSE 0) ELSE x.inf

Signed(sign) == IF sign > 0 THEN Infinity ELSE NegInfinity

Add(a, b) ==
  IF IsFinite(a) /\ IsFinite(b)
  THEN LET g == GCD(a.d, b.d)
           l == (a.d \div g) * b.d
       IN  R(a.n * (l \div a.d) + b.n * (l \div b.d), l)
  ELSE IF a = NaN \/ b = NaN THEN NaN
  ELSE IF IsFinite(a) THEN b
  ELSE IF IsFinite(b) \/ a = b THEN a
  ELSE NaN

Neg(a) ==
  IF IsFinite(a) THEN [n |-> -a.n, d |-> a.d]
  ELSE IF a = NaN THEN NaN
  ELSE Signed(-a.inf)

Sub(a, b) == Add(a, Neg(b))

Mul(a, b) ==
  IF IsFinite(a) /\ IsFinite(b)
  THEN LET g1 == GCD(Abs(a.n), b.d)
           g2 == GCD(Abs(b.n), a.d)
       IN  IF a.n = 0 \/ b.n = 0 THEN Zero
           ELSE [n |-> (a.n \div g1) * (b.n \div g2), d |-> (a.d \div g2) * (b.d \div g1)]
  ELSE IF a = NaN \/ b = NaN \/ Sign(a) = 0 \/ Sign(b) = 0 THEN NaN
  ELSE Signed(Sign(a) * Sign(b))

\* a / b as JavaScript computes it: x/0 is an infinity, 0/0 is NaN
Div(a, b) ==
  IF IsFinite(a) /\ IsFinite(b)
  THEN IF b.n = 0 THEN (IF a.n = 0 THEN NaN ELSE Signed(a.n))
       ELSE IF b.n > 0 THEN Mul(a, [n |-> b.d, d |-> b.n])
       ELSE Mul(a, [n |-> -b.d, d |-> -b.n])
  ELSE IF a = NaN \/ b = NaN THEN NaN
  ELSE IF IsFinite(a) THEN Zero
  ELSE IF IsFinite(b) THEN Signed(IF b.n < 0 THEN -a.inf ELSE a.inf)
  ELSE NaN

RECURSIVE LessFraction(_, _, _, _)
\* an/ad < bn/bd (ad, bd > 0), comparing integer parts and then remainders
LessFraction(an, ad, bn, bd) ==
  IF an \div ad # bn \div bd THEN an \div ad < bn \div bd
  ELSE IF bn % bd = 0 THEN FALSE
  ELSE IF an % ad = 0 THEN TRUE
  ELSE LessFraction(bd, bn % bd, ad, an % ad)

Less(a, b) ==
  IF IsFinite(a) /\ IsFinite(b)
  THEN LessFraction(a.n, a.d, b.n, b.d)
  ELSE IF a = NaN \/ b = NaN THEN FALSE
  ELSE IF IsFinite(a) THEN b = Infinity
  ELSE IF IsFinite(b) THEN a = NegInfinity
  ELSE a = NegInfinity /\ b = Infinity

Min(a, b) == IF a = NaN \/ b = NaN THEN NaN ELSE IF Less(b, a) THEN b ELSE a
Max(a, b) == IF a = NaN \/ b = NaN THEN NaN ELSE IF Less(a, b) THEN b ELSE a

\* truthiness of an optional number (undefined, 0 and NaN are falsy)
Truthy(x) == x # Undefined /\ x # Zero /\ x # NaN

RECURSIVE SumProb(_)
\* list.reduce((sum, sp) => sum + sp.probability, 0)
SumProb(list) ==
  IF list = << >> THEN Zero
  ELSE Add(SumProb(SubSeq(list, 1, Len(list) - 1)), list[Len(list)].probability)

\* ------------------------------------------------------------------------
\* Inputs: the markets a data provider can return for one match
\* ------------------------------------------------------------------------
H2hOddsValues == {R(k, 1) : k \in 2..MaxH2hOdds}
BinaryOddsValues == {R(k, 2) : k \in 3..MaxBinaryOddsHalves}
PointValues == {R(k, 2) : k \in 4..MaxPointHalves}

\* the win market {home: 2.00, draw: 3.00, away: 4.00}
ExampleH2h == [home |-> R(2, 1), draw |-> R(3, 1), away |-> R(4, 1)]

H2hMarkets ==
  [home : H2hOddsValues, draw : H2hOddsValues \cup {Undefined}, away : H2hOddsValues]
    \cup {ExampleH2h}
TotalsMarkets == [point : PointValues, over : BinaryOddsValues, under : BinaryOddsValues]
BttsMarkets == [yes : BinaryOddsValues, no : BinaryOddsValues]

\* interface MatchMarkets: every property is optional
MatchMarkets ==
  [h2h : H2hMarkets \cup {Undefined},
   totals : TotalsMarkets \cup {Undefined},
   bothTeamsToScore : BttsMarkets \cup {Undefined},
   correctScore : {Undefined}]

\* ------------------------------------------------------------------------
\* generateMissingMarkets (utils/marketGenerator)
\* ------------------------------------------------------------------------
\* mutant: the totals market is not copied into the new object
SpreadMarketsDropTotals(match) ==
  [h2h |-> match.h2h,
   totals |-> Undefined,
   bothTeamsToScore |-> Undefined,
   correctScore |-> Undefined]

\* const markets = { ...(match.h2h ? {h2h} : {}), ...(match.totals ? {totals} : {}) }
SpreadMarkets(match) ==
  [h2h |-> match.h2h,
   totals |-> match.totals,
   bothTeamsToScore |-> Undefined,
   correctScore |-> Undefined]

\* mutant: the balance ratio is inverted (max / min)
SynthBttsInvertedBalance(match) ==
  LET homeProb == IF match.h2h # Undefined THEN Div(One, match.h2h.home) ELSE R(33, 100)
      awayProb == IF match.h2h # Undefined THEN Div(One, match.h2h.away) ELSE R(33, 100)
      teamBalance == Div(Max(homeProb, awayProb), Min(homeProb, awayProb))
      avgWinProb == Div(Add(homeProb, awayProb), R(2, 1))
      bttsProb == Add(Add(R(4, 10), Mul(teamBalance, R(3, 10))), Mul(avgWinProb, R(2, 10)))
      margin == R(105, 100)
  IN  [yes |-> Mul(Div(One, bttsProb), margin),
       no |-> Mul(Div(One, Sub(One, bttsProb)), margin)]

\* the heuristic both-teams-to-score market
SynthBtts(match) ==
  LET homeProb == IF match.h2h # Undefined THEN Div(One, match.h2h.home) ELSE R(33, 100)
      awayProb == IF match.h2h # Undefined THEN Div(One, match.h2h.away) ELSE R(33, 100)
      teamBalance == Div(Min(homeProb, awayProb), Max(homeProb, awayProb))
      avgWinProb == Div(Add(homeProb, awayProb), R(2, 1))
      bttsProb == Add(Add(R(4, 10), Mul(teamBalance, R(3, 10))), Mul(avgWinProb, R(2, 10)))
      margin == R(105, 100)
  IN  [yes |-> Mul(Div(One, bttsProb), margin),
       no |-> Mul(Div(One, Sub(One, bttsProb)), margin)]

\* mutant: the draw term is added instead of subtracted
SynthTotalsDrawAdded(match) ==
  LET homeProb == Div(One, match.h2h.home)
      awayProb == Div(One, match.h2h.away)
      drawProb == IF Truthy(match.h2h.draw) THEN Div(One, match.h2h.draw) ELSE R(34, 100)
      attackRating == Div(Add(homeProb, awayProb), R(2, 1))
      over25Prob == Add(Add(R(3, 10), Mul(attackRating, R(4, 10))), Mul(drawProb, R(2, 10)))
      margin == R(105, 100)
  IN  [point |-> R(25, 10),
       over |-> Mul(Div(One, over25Prob), margin),
       under |-> Mul(Div(One, Sub(One, over25Prob)), margin)]

\* the heuristic over/under 2.5 market (match.h2h is present)
SynthTotals(match) ==
  LET homeProb == Div(One, match.h2h.home)
      awayProb == Div(One, match.h2h.away)
      drawProb == IF Truthy(match.h2h.draw) THEN Div(One, match.h2h.draw) ELSE R(34, 100)
      attackRating == Div(Add(homeProb, awayProb), R(2, 1))
      over25Prob == Sub(Add(R(3, 10), Mul(attackRating, R(4, 10))), Mul(drawProb, R(2, 10)))
      margin == R(105, 100)
  IN  [point |-> R(25, 10),
       over |-> Mul(Div(One, over25Prob), margin),
       under |-> Mul(Div(One, Sub(One, over25Prob)), margin)]

\* const commonScores = [...] (match.h2h is present)
commonScores(match) ==
  LET homeProb == Div(One, match.h2h.home)
      awayProb == Div(One, match.h2h.away)
      drawProb == IF Truthy(match.h2h.draw) THEN Div(One, match.h2h.draw) ELSE R(34, 100)
  IN  << [score |-> "0-0", prob |-> Mul(drawProb, R(20, 100))],
         [score |-> "1-0", prob |-> Mul(homeProb, R(15, 100))],
         [score |-> "0-1", prob |-> Mul(awayProb, R(15, 100))],
         [score |-> "1-1", prob |-> Mul(drawProb, R(30, 100))],
         [score |-> "2-0", prob |-> Mul(homeProb, R(12, 100))],
         [score |-> "0-2", prob |-> Mul(awayProb, R(12, 100))],
         [score |-> "2-1", prob |-> Mul(homeProb, R(18, 100))],
         [score |-> "1-2", prob |-> Mul(awayProb, R(18, 100))],
         [score |-> "2-2", prob |-> Mul(drawProb, R(20, 100))],
         [score |-> "3-0", prob |-> Mul(homeProb, R(8, 100))],
         [score |-> "0-3", prob |-> Mul(awayProb, R(8, 100))],
         [score |-> "3-1", prob |-> Mul(homeProb, R(10, 100))],
         [score |-> "1-3", prob |-> Mul(awayProb, R(10, 100))],
         [score |-> "3-2", prob |-> Mul(Add(homeProb, awayProb), R(5, 100))],
         [score |-> "4-0", prob |-> Mul(homeProb, R(3, 100))],
         [score |-> "0-4", prob |-> Mul(awayProb, R(3, 100))] >>

RECURSIVE SumProbField(_)
\* commonScores.reduce((sum, s) => sum + s.prob, 0)
SumProbField(list) ==
  IF list = << >> THEN Zero
  ELSE Add(SumProbField(SubSeq(list, 1, Len(list) - 1)), list[Len(list)].prob)

\* mutant: the odds are the normalized probability times the margin, not its inverse
SynthCorrectScoreNotInverted(match) ==
  LET cs == commonScores(match)
      totalProb == SumProbField(cs)
      margin == R(11, 10)
  IN  [scores |-> [i \in 1..Len(cs) |->
         [score |-> cs[i].score,
          odds |-> Mul(Div(cs[i].prob, totalProb), margin)]]]

\* the heuristic correct-score market (match.h2h is present)
SynthCorrectScore(match) ==
  LET cs == commonScores(match)
      totalProb == SumProbField(cs)
      margin == R(11, 10)
  IN  [scores |-> [i \in 1..Len(cs) |->
         [score |-> cs[i].score,
          odds |-> Mul(Div(One, Div(cs[i].prob, totalProb)), margin)]]]

\* mutant: a totals market is synthesized even when the match has one
generateMissingMarketsResynth(match) ==
  LET m0 == SpreadMarkets(match)
      m1 == IF m0.bothTeamsToScore = Undefined
            THEN [m0 EXCEPT !.bothTeamsToScore = SynthBtts(match)]
            ELSE m0
      m2 == IF match.h2h # Undefined
            THEN [m1 EXCEPT !.totals = SynthTotals(match)]
            ELSE m1
      m3 == IF m2.correctScore = Undefined /\ match.h2h # Undefined
            THEN [m2 EXCEPT !.correctScore = SynthCorrectScore(match)]
            ELSE m2
  IN  m3

generateMissingMarkets(match) ==
  LET m0 == SpreadMarkets(match)
      m1 == IF m0.bothTeamsToScore = Undefined
            THEN [m0 EXCEPT !.bothTeamsToScore = SynthBtts(match)]
            ELSE m0
      m2 == IF match.totals # Undefined THEN m1
            ELSE IF match.h2h # Undefined
                 THEN [m1 EXCEPT !.totals = SynthTotals(match)]
                 ELSE m1
      m3 == IF m2.correctScore = Undefined /\ match.h2h # Undefined
            THEN [m2 EXCEPT !.correctScore = SynthCorrectScore(match)]
            ELSE m2
  IN  m3

\* ------------------------------------------------------------------------
\* oddsToProbabilities (utils/marketGenerator)
\* ------------------------------------------------------------------------
\* mutant: the 4-0 weight is 0.05, so the home-win weights sum to 1.01
homeWinScoresHeavy ==
  << [home |-> 1, away |-> 0, weight |-> R(35, 100)],
     [home |-> 2, away |-> 0, weight |-> R(20, 100)],
     [home |-> 2, away |-> 1, weight |-> R(18, 100)],
     [home |-> 3, away |-> 0, weight |-> R(10, 100)],
     [home |-> 3, away |-> 1, weight |-> R(10, 100)],
     [home |-> 4, away |-> 0, weight |-> R(5, 100)],
     [home |-> 3, away |-> 2, weight |-> R(3, 100)] >>

homeWinScores ==
  << [home |-> 1, away |-> 0, weight |-> R(35, 100)],
     [home |-> 2, away |-> 0, weight |-> R(20, 100)],
     [home |-> 2, away |-> 1, weight |-> R(18, 100)],
     [home |-> 3, away |-> 0, weight |-> R(10, 100)],
     [home |-> 3, away |-> 1, weight |-> R(10, 100)],
     [home |-> 4, away |-> 0, weight |-> R(4, 100)],
     [home |-> 3, away |-> 2, weight |-> R(3, 100)] >>

drawScores ==
  << [home |-> 0, away |-> 0, weight |-> R(30, 100)],
     [home |-> 1, away |-> 1, weight |-> R(40, 100)],
     [home |-> 2, away |-> 2, weight |-> R(20, 100)],
     [home |-> 3, away |-> 3, weight |-> R(10, 100)] >>

\* mutant: the weights of 0-1 and 0-2 are exchanged
awayWinScoresExchanged ==
  << [home |-> 0, away |-> 1, weight |-> R(20, 100)],
     [home |-> 0, away |-> 2, weight |-> R(35, 100)],
     [home |-> 1, away |-> 2, weight |-> R(18, 100)],
     [home |-> 0, away |-> 3, weight |-> R(10, 100)],
     [home |-> 1, away |-> 3, weight |-> R(10, 100)],
     [home |-> 0, away |-> 4, weight |-> R(4, 100)],
     [home |-> 2, away |-> 3, weight |-> R(3, 100)] >>

awayWinScores ==
  << [home |-> 0, away |-> 1, weight |-> R(35, 100)],
     [home |-> 0, away |-> 2, weight |-> R(20, 100)],
     [home |-> 1, away |-> 2, weight |-> R(18, 100)],
     [home |-> 0, away |-> 3, weight |-> R(10, 100)],
     [home |-> 1, away |-> 3, weight |-> R(10, 100)],
     [home |-> 0, away |-> 4, weight |-> R(4, 100)],
     [home |-> 2, away |-> 3, weight |-> R(3, 100)] >>

\* for (const score of scores) scoreProbabilities.push({..., probability: norm * score.weight})
PushScores(scores, norm) ==
  [i \in 1..Len(scores) |->
     [home_score |-> scores[i].home,
      away_score |-> scores[i].away,
      probability |-> Mul(norm, scores[i].weight)]]

\* mutant: the implied probabilities are used without normalizing them
BaseDistributionUnnormalized(h2h) ==
  LET homeProb == Div(One, h2h.home)
      drawProb == IF Truthy(h2h.draw) THEN Div(One, h2h.draw) ELSE Zero
      awayProb == Div(One, h2h.away)
  IN  PushScores(homeWinScores, homeProb) \o PushScores(drawScores, drawProb)
        \o PushScores(awayWinScores, awayProb)

\* mutant: a missing draw gets the 0.34 default of generateMissingMarkets
BaseDistributionDefaultDraw(h2h) ==
  LET homeProb == Div(One, h2h.home)
      drawProb == IF Truthy(h2h.draw) THEN Div(One, h2h.draw) ELSE R(34, 100)
      awayProb == Div(One, h2h.away)
      total == Add(Add(homeProb, drawProb), awayProb)
      normHome == Div(homeProb, total)
      normDraw == Div(drawProb, total)
      normAway == Div(awayProb, total)
  IN  PushScores(homeWinScores, normHome) \o PushScores(drawScores, normDraw)
        \o PushScores(awayWinScores, normAway)

\* the base distribution from the win market
BaseDistribution(h2h) ==
  LET homeProb == Div(One, h2h.home)
      drawProb == IF Truthy(h2h.draw) THEN Div(One, h2h.draw) ELSE Zero
      awayProb == Div(One, h2h.away)
      total == Add(Add(homeProb, drawProb), awayProb)
      normHome == Div(homeProb, total)
      normDraw == Div(drawProb, total)
      normAway == Div(awayProb, total)
  IN  PushScores(homeWinScores, normHome) \o PushScores(drawScores, normDraw)
        \o PushScores(awayWinScores, normAway)

\* scoreProbabilities.map(sp => ({...sp, probability: sp.probability / totalAdjusted}))
Renormalize(list) ==
  LET totalAdjusted == SumProb(list)
  IN  [i \in 1..Len(list) |->
         [list[i] EXCEPT !.probability = Div(list[i].probability, totalAdjusted)]]

\* mutant: the under probability is normalized instead of the over probability
NormOverFromUnder(totals) ==
  LET overProb == Div(One, totals.over)
      underProb == Div(One, totals.under)
  IN  Div(underProb, Add(overProb, underProb))

\* overProb / (overProb + underProb)
NormOver(totals) ==
  LET overProb == Div(One, totals.over)
      underProb == Div(One, totals.under)
  IN  Div(overProb, Add(overProb, underProb))

Half == R(1, 2)

\* mutant: total goals equal to the point count as under (<= instead of <)
TotalsAdjustPushAsUnder(list, totals) ==
  LET normOver == NormOver(totals)
  IN  [i \in 1..Len(list) |->
         LET sp == list[i]
             totalGoals == R(sp.home_score + sp.away_score, 1)
         IN  IF Less(totals.point, totalGoals)
             THEN [sp EXCEPT !.probability = Mul(sp.probability, Add(Half, Mul(normOver, Half)))]
             ELSE [sp EXCEPT !.probability =
                     Mul(sp.probability, Add(Half, Mul(Sub(One, normOver), Half)))]]

\* mutant: the over factor is 1 + normOver * 0.5
TotalsAdjustOverFactorAboveOne(list, totals) ==
  LET normOver == NormOver(totals)
  IN  [i \in 1..Len(list) |->
         LET sp == list[i]
             totalGoals == R(sp.home_score + sp.away_score, 1)
         IN  IF Less(totals.point, totalGoals)
             THEN [sp EXCEPT !.probability = Mul(sp.probability, Add(One, Mul(normOver, Half)))]
             ELSE IF Less(totalGoals, totals.point)
             THEN [sp EXCEPT !.probability =
                     Mul(sp.probability, Add(Half, Mul(Sub(One, normOver), Half)))]
             ELSE sp]

\* the reweighting by the totals market, before renormalization
TotalsAdjust(list, totals) ==
  LET normOver == NormOver(totals)
  IN  [i \in 1..Len(list) |->
         LET sp == list[i]
             totalGoals == R(sp.home_score + sp.away_score, 1)
         IN  IF Less(totals.point, totalGoals)
             THEN [sp EXCEPT !.probability = Mul(sp.probability, Add(Half, Mul(normOver, Half)))]
             ELSE IF Less(totalGoals, totals.point)
             THEN [sp EXCEPT !.probability =
                     Mul(sp.probability, Add(Half, Mul(Sub(One, normOver), Half)))]
             ELSE sp]

\* bttsYesProb / (bttsYesProb + bttsNoProb)
NormBTTSYes(btts) ==
  LET bttsYesProb == Div(One, btts.yes)
      bttsNoProb == Div(One, btts.no)
  IN  Div(bttsYesProb, Add(bttsYesProb, bttsNoProb))

\* mutant: bothScored is home_score > 0 || away_score > 0
BttsAdjustEitherScored(list, btts) ==
  LET normBTTSYes == NormBTTSYes(btts)
  IN  [i \in 1..Len(list) |->
         LET sp == list[i]
             bothScored == sp.home_score > 0 \/ sp.away_score > 0
         IN  IF bothScored
             THEN [sp EXCEPT !.probability = Mul(sp.probability, Add(Half, Mul(normBTTSYes, Half)))]
             ELSE [sp EXCEPT !.probability =
                     Mul(sp.probability, Add(Half, Mul(Sub(One, normBTTSYes), Half)))]]

\* mutant: entries in which not both teams score are left unchanged
BttsAdjustOnlyBoth(list, btts) ==
  LET normBTTSYes == NormBTTSYes(btts)
  IN  [i \in 1..Len(list) |->
         LET sp == list[i]
             bothScored == sp.home_score > 0 /\ sp.away_score > 0
         IN  IF bothScored
             THEN [sp EXCEPT !.probability = Mul(sp.probability, Add(Half, Mul(normBTTSYes, Half)))]
             ELSE sp]

\* the reweighting by the both-teams-to-score market, before renormalization
BttsAdjust(list, btts) ==
  LET normBTTSYes == NormBTTSYes(btts)
  IN  [i \in 1..Len(list) |->
         LET sp == list[i]
             bothScored == sp.home_score > 0 /\ sp.away_score > 0
         IN  IF bothScored
             THEN [sp EXCEPT !.probability = Mul(sp.probability, Add(Half, Mul(normBTTSYes, Half)))]
             ELSE [sp EXCEPT !.probability =
                     Mul(sp.probability, Add(Half, Mul(Sub(One, normBTTSYes), Half)))]]

\* mutant: the list starts with a goalless draw of probability 1
InitialScoreProbabilitiesGoalless == << [home_score |-> 0, away_score |-> 0, probability |-> One] >>

\* let scoreProbabilities: ScoreProbability[] = []
InitialScoreProbabilities == << >>

\* the list after the base distribution and the totals step (markets.h2h is present)
AfterTotals(markets) ==
  LET base == InitialScoreProbabilities \o BaseDistribution(markets.h2h)
  IN  IF markets.totals # Undefined
      THEN Renormalize(TotalsAdjust(base, markets.totals))
      ELSE base

oddsToProbabilities(markets) ==
  IF markets.h2h # Undefined
  THEN LET afterTotals == AfterTotals(markets)
           afterBtts == IF markets.bothTeamsToScore # Undefined
                        THEN Renormalize(BttsAdjust(afterTotals, markets.bothTeamsToScore))
                        ELSE afterTotals
       IN  afterBtts
  ELSE InitialScoreProbabilities

\* ------------------------------------------------------------------------
\* oddsToScoreProbabilities, oddsToScoreProbabilitiesWithTotals (utils/oddsConverter)
\* ------------------------------------------------------------------------
converterHomeWinScores ==
  << [home |-> 1, away |-> 0, weight |-> R(35, 100)],
     [home |-> 2, away |-> 0, weight |-> R(20, 100)],
     [home |-> 2, away |-> 1, weight |-> R(18, 100)],
     [home |-> 3, away |-> 0, weight |-> R(10, 100)],
     [home |-> 3, away |-> 1, weight |-> R(10, 100)],
     [home |-> 4, away |-> 0, weight |-> R(4, 100)],
     [home |-> 3, away |-> 2, weight |-> R(3, 100)] >>

converterDrawScores ==
  << [home |-> 0, away |-> 0, weight |-> R(30, 100)],
     [home |-> 1, away |-> 1, weight |-> R(40, 100)],
     [home |-> 2, away |-> 2, weight |-> R(20, 100)],
     [home |-> 3, away |-> 3, weight |-> R(10, 100)] >>

converterAwayWinScores ==
  << [home |-> 0, away |-> 1, weight |-> R(35, 100)],
     [home |-> 0, away |-> 2, weight |-> R(20, 100)],
     [home |-> 1, away |-> 2, weight |-> R(18, 100)],
     [home |-> 0, away |-> 3, weight |-> R(10, 100)],
     [home |-> 1, away |-> 3, weight |-> R(10, 100)],
     [home |-> 0, away |-> 4, weight |-> R(4, 100)],
     [home |-> 2, away |-> 3, weight |-> R(3, 100)] >>

oddsToScoreProbabilities(homeOdds, drawOdds, awayOdds) ==
  LET homeProb == Div(One, homeOdds)
      drawProb == IF Truthy(drawOdds) THEN Div(One, drawOdds) ELSE Zero
      awayProb == Div(One, awayOdds)
      total == Add(Add(homeProb, drawProb), awayProb)
      normHome == Div(homeProb, total)
      normDraw == Div(drawProb, total)
      normAway == Div(awayProb, total)
  IN  PushScores(converterHomeWinScores, normHome) \o PushScores(converterDrawScores, normDraw)
        \o PushScores(converterAwayWinScores, normAway)

\* the reweighting by over/under odds in the converter, before renormalization
ConverterTotalsAdjust(list, totalsPoint, overOdds, underOdds) ==
  LET overProb == Div(One, overOdds)
      underProb == Div(One, underOdds)
      totalProb == Add(overProb, underProb)
      normOver == Div(overProb, totalProb)
      normUnder == Div(underProb, totalProb)
  IN  [i \in 1..Len(list) |->
         LET sp == list[i]
             totalGoals == R(sp.home_score + sp.away_score, 1)
         IN  IF Less(totalsPoint, totalGoals)
             THEN [sp EXCEPT !.probability = Mul(sp.probability, Add(Half, Mul(normOver, Half)))]
             ELSE IF Less(totalGoals, totalsPoint)
             THEN [sp EXCEPT !.probability = Mul(sp.probability, Add(Half, Mul(normUnder, Half)))]
             ELSE sp]

\* scoreProbabilities.map(sp => ({...sp, probability: sp.probability / totalAdjusted}))
ConverterRenormalize(list) ==
  LET totalAdjusted == SumProb(list)
  IN  [i \in 1..Len(list) |->
         [list[i] EXCEPT !.probability = Div(list[i].probability, totalAdjusted)]]

oddsToScoreProbabilitiesWithTotals(homeOdds, drawOdds, awayOdds, totalsPoint, overOdds, underOdds) ==
  LET scoreProbs == oddsToScoreProbabilities(homeOdds, drawOdds, awayOdds)
  IN  IF Truthy(totalsPoint) /\ Truthy(overOdds) /\ Truthy(underOdds)
      THEN ConverterRenormalize(ConverterTotalsAdjust(scoreProbs, totalsPoint, overOdds, underOdds))
      ELSE scoreProbs

\* ------------------------------------------------------------------------
\* convertMarketToAPI (utils/marketGenerator)
\* ------------------------------------------------------------------------
\* the digits after the decimal point of r/d (0 < r < d), at most k of them
RECURSIVE FractionDigits(_, _, _)
FractionDigits(r, d, k) ==
  IF r = 0 \/ k = 0 THEN ""
  ELSE ToString((r * 10) \div d) \o FractionDigits((r * 10) % d, d, k - 1)

\* `${x}`: the decimal numeral JavaScript writes for a number (a double has at
\* most 17 significant digits), "undefined" for an absent value
NumberString(x) ==
  IF x = Undefined THEN "undefined"
  ELSE IF x = NaN THEN "NaN"
  ELSE IF x = Infinity THEN "Infinity"
  ELSE IF x = NegInfinity THEN "-Infinity"
  ELSE LET a == Abs(x.n)
       IN  (IF x.n < 0 THEN "-" ELSE "")
             \o ToString(a \div x.d)
             \o (IF a % x.d = 0 THEN "" ELSE "." \o FractionDigits(a % x.d, x.d, 17))

\* mutant: the conversion runSimulation writes inline, only h2h and totals are renamed
convertMarketToAPIOnlyH2hAndTotals(market, side, point) ==
  IF market = "h2h"
  THEN [market |-> "1X2",
        outcome |-> IF side = "home" THEN "1" ELSE IF side = "draw" THEN "X"
                    ELSE IF side = "away" THEN "2" ELSE side]
  ELSE IF market = "totals"
  THEN [market |-> "over_under", outcome |-> side \o "_" \o NumberString(point)]
  ELSE [market |-> market, outcome |-> side]

convertMarketToAPI(market, side, point) ==
  IF market = "h2h"
  THEN [market |-> "1X2",
        outcome |-> IF side = "home" THEN "1" ELSE IF side = "draw" THEN "X" ELSE "2"]
  ELSE IF market = "totals"
  THEN [market |-> "over_under", outcome |-> side \o "_" \o NumberString(point)]
  ELSE IF market = "btts"
  THEN [market |-> "both_teams_to_score", outcome |-> IF side = "yes" THEN "yes" ELSE "no"]
  ELSE IF market = "correct_score"
  THEN [market |-> "correct_score", outcome |-> side]
  ELSE [market |-> market, outcome |-> side]

\* ------------------------------------------------------------------------
\* State: one match's markets with the value returned by the last call made
\* on them, and the React state of the App component.  Display-only state
\* (texts, showResults, playerStats, betHistory) is not modelled.
\* ------------------------------------------------------------------------
VARIABLES
  match,            \* the markets of the match being processed
  source,           \* "provider": as adapted from the provider; "generated": an output fed back
  op,               \* the last function or named handler called
  result,           \* the value that call returned
  call,             \* the arguments of that call
  isAuthenticated,  \* useState(false)
  balance,          \* useState(50000)
  storedBalance,    \* bettingUsers[userId].balance in localStorage
  betSlip,          \* useState<Selection[]>([])
  stake,            \* useState(100)
  simulations,      \* useState(1)
  isSimulating,     \* useState(false)
  isSimMode,        \* useState(true)
  pendingBets,      \* useState<PendingBet[]>([])
  simRun,           \* the closure of the runSimulation call awaiting its requests
  simulationResults, \* useState<SimulationResult[]>([])
  clock,            \* the last value read from Date.now()
  runs,             \* the number of runSimulation calls made
  leagues,          \* useState<League[]>([]): the keys of the leagues
  activeLeagueKey,  \* useState<string>('soccer_epl')
  matches,          \* useState<Match[]>([])
  cache,            \* useState<Record<string, CachedData>>: league key -> entry
  isLoading,        \* useState(false)
  fetches,          \* the closures of the fetchOdds calls awaiting their response
  fetchCalls        \* the number of fetchOdds calls made

appVars ==
  <<isAuthenticated, balance, storedBalance, betSlip, stake, simulations,
    isSimulating, isSimMode, pendingBets, simRun, simulationResults, clock, runs>>

\* the state of the bets: appVars without the clock
betVars ==
  <<isAuthenticated, balance, storedBalance, betSlip, stake, simulations,
    isSimulating, isSimMode, pendingBets, simRun, simulationResults, runs>>

\* the state of the odds feed
feedVars == <<leagues, activeLeagueKey, matches, cache, isLoading, fetches, fetchCalls>>

vars == <<match, source, op, result, call, appVars, feedVars>>

\* useState initial values
InitialBalance == 50000
DefaultStake == 100

AppInit ==
  /\ isAuthenticated = FALSE
  /\ balance = R(InitialBalance, 1)
  /\ storedBalance = R(InitialBalance, 1)
  /\ betSlip = << >>
  /\ stake = R(DefaultStake, 1)
  /\ simulations = 1
  /\ isSimulating = FALSE
  /\ isSimMode = TRUE
  /\ pendingBets = << >>
  /\ simRun = Undefined
  /\ simulationResults = << >>
  /\ clock = 0
  /\ runs = 0

\* the leagues fetchLeagues loads
LeagueList == <<"soccer_epl", "soccer_spain_la_liga">>
LeagueKeys == {LeagueList[i] : i \in 1..Len(LeagueList)}

\* matches as fetchOdds transforms the provider's events (interface Match; the
\* league's key stands for its title): m2 comes from a bookmaker without a win
\* market, m1 is quoted at 2.00 and, after the odds moved, at 3.00
MatchM1 == [id |-> "m1", league |-> "soccer_epl", h2h |-> ExampleH2h, totals |-> Undefined]
MatchM1Moved ==
  [id |-> "m1", league |-> "soccer_epl",
   h2h |-> [home |-> R(3, 1), draw |-> R(3, 1), away |-> R(2, 1)], totals |-> Undefined]
MatchM2 ==
  [id |-> "m2", league |-> "soccer_epl", h2h |-> Undefined,
   totals |-> [point |-> R(5, 2), over |-> R(2, 1), under |-> R(2, 1)]]
MatchM3 ==
  [id |-> "m3", league |-> "soccer_spain_la_liga",
   h2h |-> [home |-> R(2, 1), draw |-> Undefined, away |-> R(2, 1)],
   totals |-> [point |-> R(5, 2), over |-> R(3, 2), under |-> R(2, 1)]]

\* the lists a successful odds request for a league is transformed into
ProviderMatches(leagueKey) ==
  IF leagueKey = "soccer_epl"
  THEN {<<MatchM1, MatchM2>>, <<MatchM1Moved, MatchM2>>}
  ELSE {<<MatchM3>>}

\* useState initial values and the empty oddsCache of a first visit
NoCache == [leagueKey \in LeagueKeys |-> Undefined]

FeedInit ==
  /\ leagues = << >>
  /\ activeLeagueKey = "soccer_epl"
  /\ matches = << >>
  /\ cache = NoCache
  /\ isLoading = FALSE
  /\ fetches = {}
  /\ fetchCalls = 0

\* the feed once the leagues and the first odds of soccer_epl have loaded
FeedLoaded ==
  /\ leagues = LeagueList
  /\ activeLeagueKey = "soccer_epl"
  /\ matches = <<MatchM1, MatchM2>>
  /\ cache = [NoCache EXCEPT !["soccer_epl"] = [data |-> <<MatchM1, MatchM2>>, fetchedAt |-> 0]]
  /\ isLoading = FALSE
  /\ fetches = {}
  /\ fetchCalls = 1

Init ==
  /\ match \in MatchMarkets
  /\ source = "provider"
  /\ op = "none"
  /\ result = Undefined
  /\ call = Undefined
  /\ AppInit
  /\ FeedInit

\* markets = generateMissingMarkets(match)
GenerateMissingMarkets ==
  /\ result' = generateMissingMarkets(match)
  /\ op' = "generateMissingMarkets"
  /\ UNCHANGED <<match, source, call, appVars, feedVars>>

\* the caller passes the generated markets on as the match's markets
FeedBack ==
  /\ op = "generateMissingMarkets"
  /\ source = "provider"
  /\ match' = result
  /\ source' = "generated"
  /\ op' = "none"
  /\ result' = Undefined
  /\ UNCHANGED <<call, appVars, feedVars>>

\* oddsToProbabilities(match)
OddsToProbabilities ==
  /\ result' = oddsToProbabilities(match)
  /\ op' = "oddsToProbabilities"
  /\ UNCHANGED <<match, source, call, appVars, feedVars>>

\* match.totals?.point, match.totals?.over, match.totals?.under
OptionalField(obj, field) == IF obj = Undefined THEN Undefined ELSE obj[field]

\* runSimulation: if (!match.h2h) continue; oddsToScoreProbabilitiesWithTotals(...)
OddsToScoreProbabilitiesWithTotals ==
  /\ match.h2h # Undefined
  /\ result' = oddsToScoreProbabilitiesWithTotals(
                 match.h2h.home, match.h2h.draw, match.h2h.away,
                 OptionalField(match.totals, "point"),
                 OptionalField(match.totals, "over"),
                 OptionalField(match.totals, "under"))
  /\ op' = "oddsToScoreProbabilitiesWithTotals"
  /\ UNCHANGED <<match, source, call, appVars, feedVars>>

Next ==
  \/ GenerateMissingMarkets
  \/ FeedBack
  \/ OddsToProbabilities
  \/ OddsToScoreProbabilitiesWithTotals

Spec == Init /\ [][Next]_vars

\* ------------------------------------------------------------------------
\* The engine on odds no adapter has validated: the functions accept any number
\* ------------------------------------------------------------------------
UnvalidatedH2hMarkets ==
  { [home |-> R(2, 1), draw |-> Undefined, away |-> R(2, 1)],
    [home |-> R(2, 1), draw |-> R(3, 1), away |-> R(2, 1)],
    ExampleH2h }

UnvalidatedMarkets ==
  [h2h : UnvalidatedH2hMarkets,
   totals : [point : {R(1, 2), R(3, 2)}, over : {R(-1, 1), R(2, 1)}, under : {R(1, 2), R(2, 1)}]
              \cup {Undefined},
   bothTeamsToScore : [yes : {R(1, 2), R(2, 1)}, no : {R(-1, 1), R(2, 1)}] \cup {Undefined},
   correctScore : {Undefined}]

InitUnvalidated ==
  /\ match \in UnvalidatedMarkets
  /\ source = "provider"
  /\ op = "none"
  /\ result = Undefined
  /\ call = Undefined
  /\ AppInit
  /\ FeedInit

NextUnvalidated ==
  \/ OddsToProbabilities
  \/ OddsToScoreProbabilitiesWithTotals

SpecUnvalidated == InitUnvalidated /\ [][NextUnvalidated]_vars

\* ------------------------------------------------------------------------
\* oddsToProbabilities alone, applied to the markets of every provider match
\* ------------------------------------------------------------------------
NextDistribute == OddsToProbabilities

SpecDistribute == Init /\ [][NextDistribute]_vars

\* ------------------------------------------------------------------------
\* The two distributors, applied to the markets of every provider match
\* ------------------------------------------------------------------------
NextDistributors ==
  \/ OddsToProbabilities
  \/ OddsToScoreProbabilitiesWithTotals

SpecDistributors == Init /\ [][NextDistributors]_vars

\* ------------------------------------------------------------------------
\* The two distributors on the win and totals markets the adapter of fetchOdds
\* lets through: a totals market is kept when its point is not undefined, so a
\* point of 0 passes
\* ------------------------------------------------------------------------
AdaptedTotalsMarkets ==
  [point : PointValues \cup {Zero}, over : BinaryOddsValues, under : BinaryOddsValues]

AdaptedMarkets ==
  [h2h : H2hMarkets,
   totals : AdaptedTotalsMarkets \cup {Undefined},
   bothTeamsToScore : {Undefined},
   correctScore : {Undefined}]

InitAdapted ==
  /\ match \in AdaptedMarkets
  /\ source = "provider"
  /\ op = "none"
  /\ result = Undefined
  /\ call = Undefined
  /\ AppInit
  /\ FeedInit

SpecAdapted == InitAdapted /\ [][NextDistributors]_vars

\* ------------------------------------------------------------------------
\* convertMarketToAPI called on any market name, side and optional point
\* ------------------------------------------------------------------------
MarketNames == {"h2h", "totals", "btts", "correct_score", "spreads"}
SideNames == {"home", "draw", "away", "over", "under", "yes", "no", "2-1"}

ExampleMatch ==
  [h2h |-> ExampleH2h, totals |-> Undefined, bothTeamsToScore |-> Undefined,
   correctScore |-> Undefined]

InitConvert ==
  /\ match = ExampleMatch
  /\ source = "provider"
  /\ op = "none"
  /\ result = Undefined
  /\ call = Undefined
  /\ AppInit
  /\ FeedInit

ConvertMarketToAPI ==
  /\ \E market \in MarketNames, side \in SideNames, point \in PointValues \cup {Undefined} :
       /\ call' = [market |-> market, side |-> side, point |-> point]
       /\ result' = convertMarketToAPI(market, side, point)
  /\ op' = "convertMarketToAPI"
  /\ UNCHANGED <<match, source, appVars, feedVars>>

NextConvert == ConvertMarketToAPI

SpecConvert == InitConvert /\ [][NextConvert]_vars

\* ------------------------------------------------------------------------
\* The App component: betslip, balance, Sim-mode runs and Real-mode bets
\* ------------------------------------------------------------------------
\* the most selections a betslip holds in the model
MaxBetSlip == 2
\* the largest number of simulations asked of one run in the model
MaxSimulations == 2
\* the most runSimulation calls in one behaviour of the model
MaxRuns == 2

\* the odds buttons on display: the arguments addToBetSlip is called with
\* (the same h2h price is shown again after an odds refresh changed it)
Offers ==
  { [matchId |-> "m1", market |-> "h2h", side |-> "home", odds |-> R(2, 1), point |-> Undefined],
    [matchId |-> "m1", market |-> "h2h", side |-> "home", odds |-> R(3, 1), point |-> Undefined],
    [matchId |-> "m2", market |-> "totals", side |-> "over", odds |-> R(2, 1), point |-> R(5, 2)] }

\* the values typed into the stake input
StakeValues == {Zero, R(DefaultStake, 1)}

\* what one POST /api/simulate-betslip can come back with
SimulationResponses ==
  { [threw |-> FALSE, ok |-> TRUE, result |-> [bet_slip_won |-> TRUE, actual_payout |-> R(250, 1)]],
    [threw |-> FALSE, ok |-> TRUE, result |-> [bet_slip_won |-> FALSE, actual_payout |-> Zero]],
    [threw |-> FALSE, ok |-> FALSE, result |-> Undefined],
    [threw |-> TRUE, ok |-> FALSE, result |-> Undefined] }

\* id: `${match.id}-${market}-${side}-${point || 0}`
SelectionId(matchId, market, side, point) ==
  matchId \o "-" \o market \o "-" \o side \o "-"
    \o NumberString(IF Truthy(point) THEN point ELSE Zero)

Selection(matchId, market, side, odds, point) ==
  [id |-> SelectionId(matchId, market, side, point), matchId |-> matchId,
   odds |-> odds, market |-> market, side |-> side, point |-> point]

\* betSlip.find(s => s.id === id)
HasId(list, id) == \E i \in 1..Len(list) : list[i].id = id

\* list.filter(s => s.id !== id)
WithoutId(list, id) ==
  LET Keep(s) == s.id # id
  IN  SelectSeq(list, Keep)

\* pendingBets.find(b => b.id === betId): the first bet with that id
FindBet(list, betId) ==
  IF HasId(list, betId)
  THEN list[CHOOSE i \in 1..Len(list) :
              list[i].id = betId /\ \A j \in 1..(i - 1) : list[j].id # betId]
  ELSE Undefined

\* mutant: the selection is appended without looking for its id
addToBetSlipWithoutExistsCheck(slip, matchId, market, side, odds, point) ==
  Append(slip, Selection(matchId, market, side, odds, point))

\* the betslip addToBetSlip sets
addToBetSlip(slip, matchId, market, side, odds, point) ==
  LET newSelection == Selection(matchId, market, side, odds, point)
  IN  IF HasId(slip, newSelection.id) THEN slip ELSE Append(slip, newSelection)

\* betSlip.reduce((acc, sel) => acc * sel.odds, 1)
RECURSIVE OddsProduct(_)
OddsProduct(slip) ==
  IF Len(slip) = 0 THEN One
  ELSE Mul(OddsProduct(SubSeq(slip, 1, Len(slip) - 1)), slip[Len(slip)].odds)

calculateTotalOdds(slip) == IF Len(slip) = 0 THEN Zero ELSE OddsProduct(slip)

calculatePotentialWin(stk, slip) == Mul(stk, calculateTotalOdds(slip))

\* allResults.filter(r => r.bet_slip_won).reduce((sum, r) => sum + r.actual_payout, 0)
RECURSIVE totalWinnings(_)
totalWinnings(allResults) ==
  IF Len(allResults) = 0 THEN Zero
  ELSE LET r == allResults[Len(allResults)]
           rest == totalWinnings(SubSeq(allResults, 1, Len(allResults) - 1))
       IN  IF r.bet_slip_won THEN Add(rest, r.actual_payout) ELSE rest

\* mutant: only the simulations that returned a result are charged
netProfitOfReturnedOnly(allResults, stk, n) ==
  Sub(totalWinnings(allResults), Mul(stk, R(Len(allResults), 1)))

\* netProfit = totalWinnings - stake * simulations
netProfit(allResults, stk, n) == Sub(totalWinnings(allResults), Mul(stk, R(n, 1)))

\* matches.reduce((acc, m) => { acc[m.id] = m; return acc }, {})[matchId]: the
\* last loaded match with that id
matchesMap(ms, matchId) ==
  IF \E i \in 1..Len(ms) : ms[i].id = matchId
  THEN ms[CHOOSE i \in 1..Len(ms) :
            ms[i].id = matchId /\ \A j \in (i + 1)..Len(ms) : ms[j].id # matchId]
  ELSE Undefined

\* mutant: every selection is a group of its own
matchGroupKeysPerSelection(slip) == [i \in 1..Len(slip) |-> slip[i].matchId]

\* the keys of Object.entries(matchGroups): the match ids of the betslip in
\* the order of their first selection
RECURSIVE matchGroupKeys(_)
matchGroupKeys(slip) ==
  IF slip = << >> THEN << >>
  ELSE LET rest == matchGroupKeys(SubSeq(slip, 1, Len(slip) - 1))
           matchId == slip[Len(slip)].matchId
       IN  IF \E i \in 1..Len(rest) : rest[i] = matchId THEN rest ELSE Append(rest, matchId)

\* matchGroups[matchId]: the selections on that match, in betslip order
matchGroup(slip, matchId) == SelectSeq(slip, LAMBDA sel : sel.matchId = matchId)

\* the entry runSimulation pushes to betSlipData for a selection
betSlipDataEntry(matchId, sel) ==
  LET market == IF sel.market = "h2h" THEN "1X2"
                ELSE IF sel.market = "totals" THEN "over_under" ELSE sel.market
      outcome == IF sel.market = "h2h"
                 THEN IF sel.side = "home" THEN "1" ELSE IF sel.side = "draw" THEN "X"
                      ELSE IF sel.side = "away" THEN "2" ELSE sel.side
                 ELSE IF sel.market = "totals"
                 THEN sel.side \o "_" \o NumberString(sel.point)
                 ELSE sel.side
  IN  [match_id |-> matchId, market |-> market, outcome |-> outcome, odds |-> sel.odds]

\* the entry runSimulation pushes to matchesData for a loaded match with a win market
matchesDataEntry(matchId, m) ==
  [match_id |-> matchId,
   score_probabilities |->
     oddsToScoreProbabilitiesWithTotals(m.h2h.home, m.h2h.draw, m.h2h.away,
                                        OptionalField(m.totals, "point"),
                                        OptionalField(m.totals, "over"),
                                        OptionalField(m.totals, "under"))]

\* for (const [matchId, selections] of Object.entries(matchGroups)) over the
\* first keys of the groups: matchesData and betSlipData
RECURSIVE payloadOfGroups(_, _, _)
payloadOfGroups(ms, slip, keys) ==
  IF keys = << >> THEN [matches |-> << >>, bet_slip |-> << >>]
  ELSE LET done == payloadOfGroups(ms, slip, SubSeq(keys, 1, Len(keys) - 1))
           matchId == keys[Len(keys)]
           selections == matchGroup(slip, matchId)
           m == matchesMap(ms, matchId)
       IN  IF m = Undefined \/ m.h2h = Undefined
           THEN done
           ELSE [matches |-> Append(done.matches, matchesDataEntry(matchId, m)),
                 bet_slip |-> done.bet_slip \o
                                [i \in 1..Len(selections) |->
                                   betSlipDataEntry(matchId, selections[i])]]

\* the matches and bet_slip of the body runSimulation posts
simulationPayload(ms, slip) == payloadOfGroups(ms, slip, matchGroupKeys(slip))

\* useEffect on [balance, isAuthenticated, currentUser]: saveUserBalance()
SavedBalance(authenticated, newBalance) ==
  IF authenticated THEN newBalance ELSE storedBalance

\* stake <= 0
NotPositive(x) == x = Zero \/ Less(x, Zero)

InitApp ==
  /\ match = ExampleMatch
  /\ source = "provider"
  /\ op = "none"
  /\ result = Undefined
  /\ call = Undefined
  /\ AppInit
  /\ FeedLoaded

\* Auth: onLogin(userId, username)
HandleLogin ==
  /\ ~isAuthenticated
  /\ balance' = storedBalance
  /\ isAuthenticated' = TRUE
  /\ op' = "handleLogin"
  /\ call' = Undefined
  /\ UNCHANGED <<match, source, result, storedBalance, betSlip, stake, simulations,
                 isSimulating, isSimMode, pendingBets, simRun, simulationResults, clock, runs>>
  /\ UNCHANGED feedVars

HandleLogout ==
  /\ isAuthenticated
  /\ storedBalance' = balance
  /\ isAuthenticated' = FALSE
  /\ betSlip' = << >>
  /\ pendingBets' = << >>
  /\ op' = "handleLogout"
  /\ call' = Undefined
  /\ UNCHANGED <<match, source, result, balance, stake, simulations, isSimulating,
                 isSimMode, simRun, simulationResults, clock, runs>>
  /\ UNCHANGED feedVars

\* an odds button: addToBetSlip(match, market, side, odds, point)
AddToBetSlip(offer) ==
  /\ isAuthenticated
  /\ LET slip == addToBetSlip(betSlip, offer.matchId, offer.market, offer.side,
                              offer.odds, offer.point)
     IN  /\ Len(slip) <= MaxBetSlip
         /\ betSlip' = slip
  /\ op' = "addToBetSlip"
  /\ call' = offer
  /\ UNCHANGED <<match, source, result, isAuthenticated, balance, storedBalance, stake,
                 simulations, isSimulating, isSimMode, pendingBets, simRun, simulationResults, clock, runs>>
  /\ UNCHANGED feedVars

\* the remove button of a selection on the betslip
RemoveFromBetSlip ==
  /\ isAuthenticated
  /\ \E i \in 1..Len(betSlip) :
       /\ betSlip' = WithoutId(betSlip, betSlip[i].id)
       /\ call' = [id |-> betSlip[i].id]
  /\ op' = "removeFromBetSlip"
  /\ UNCHANGED <<match, source, result, isAuthenticated, balance, storedBalance, stake,
                 simulations, isSimulating, isSimMode, pendingBets, simRun, simulationResults, clock, runs>>
  /\ UNCHANGED feedVars

\* Clear All: setBetSlip([])
ClearAll ==
  /\ isAuthenticated
  /\ Len(betSlip) > 0
  /\ betSlip' = << >>
  /\ UNCHANGED <<match, source, op, result, call, isAuthenticated, balance, storedBalance, stake,
                 simulations, isSimulating, isSimMode, pendingBets, simRun, simulationResults, clock, runs>>
  /\ UNCHANGED feedVars

\* the stake input: setStake(Number(e.target.value))
SetStake ==
  /\ isAuthenticated
  /\ Len(betSlip) > 0
  /\ \E value \in StakeValues :
       stake' = value
  /\ UNCHANGED <<match, source, op, result, call, isAuthenticated, balance, storedBalance, betSlip,
                 simulations, isSimulating, isSimMode, pendingBets, simRun, simulationResults, clock, runs>>
  /\ UNCHANGED feedVars

\* the - and + buttons and the input: setSimulations(Math.max(1, ...)), setSimulations(simulations + 1)
SetSimulations ==
  /\ isAuthenticated
  /\ Len(betSlip) > 0
  /\ isSimMode
  /\ \E value \in {simulations - 1, simulations + 1} \cup 0..MaxSimulations :
       /\ value <= MaxSimulations
       /\ simulations' = IF value = simulations + 1 THEN value
                         ELSE IF value < 1 THEN 1 ELSE value
  /\ UNCHANGED <<match, source, op, result, call, isAuthenticated, balance, storedBalance, betSlip,
                 stake, isSimulating, isSimMode, pendingBets, simRun, simulationResults, clock, runs>>
  /\ UNCHANGED feedVars

\* the Real and Sim buttons: setIsSimMode(false), setIsSimMode(true)
SetIsSimMode ==
  /\ isAuthenticated
  /\ \E value \in BOOLEAN :
       isSimMode' = value
  /\ UNCHANGED <<match, source, op, result, call, isAuthenticated, balance, storedBalance, betSlip,
                 stake, simulations, isSimulating, pendingBets, simRun, simulationResults, clock, runs>>
  /\ UNCHANGED feedVars

\* the run button (disabled while isSimulating or on an empty betslip): in Sim
\* mode the call goes on to await its requests, in Real mode it places the bet
RunSimulation ==
  /\ isAuthenticated
  /\ ~isSimulating
  /\ Len(betSlip) > 0
  /\ runs < MaxRuns
  /\ runs' = runs + 1
  /\ op' = "runSimulation"
  /\ call' = Undefined
  /\ IF Len(betSlip) = 0 \/ NotPositive(stake)
     THEN UNCHANGED <<balance, storedBalance, betSlip, isSimulating, pendingBets, simRun, clock>>
     ELSE IF isSimMode
     THEN /\ isSimulating' = TRUE
          /\ simRun' = [balance |-> balance, stake |-> stake, simulations |-> simulations,
                        i |-> 0, allResults |-> << >>,
                        matches |-> simulationPayload(matches, betSlip).matches,
                        bet_slip |-> simulationPayload(matches, betSlip).bet_slip]
          /\ UNCHANGED <<balance, storedBalance, betSlip, pendingBets, clock>>
     ELSE \E now \in {clock, clock + 1} :
            LET newBet == [id |-> ToString(now), selections |-> betSlip, stake |-> stake,
                           potentialWin |-> calculatePotentialWin(stake, betSlip),
                           placedAt |-> now]
            IN  /\ clock' = now
                /\ balance' = Sub(balance, stake)
                /\ storedBalance' = SavedBalance(isAuthenticated, Sub(balance, stake))
                /\ pendingBets' = Append(pendingBets, newBet)
                /\ betSlip' = << >>
                /\ UNCHANGED <<isSimulating, simRun>>
  /\ UNCHANGED <<match, source, result, isAuthenticated, stake, simulations, isSimMode,
                 simulationResults>>
  /\ UNCHANGED feedVars

\* one awaited request of the Sim-mode loop comes back; after the last one the
\* call goes on to set the balance from the balance it captured when it started
SimulateBetslipResponse(response) ==
  /\ simRun # Undefined
  /\ LET allResults == IF ~response.threw /\ response.ok
                       THEN Append(simRun.allResults, response.result)
                       ELSE simRun.allResults
         i == simRun.i + 1
         newBalance == Add(simRun.balance,
                           netProfit(allResults, simRun.stake, simRun.simulations))
     IN  IF i < simRun.simulations
         THEN /\ simRun' = [simRun EXCEPT !.i = i, !.allResults = allResults]
              /\ UNCHANGED <<balance, storedBalance, betSlip, isSimulating, simulationResults>>
         ELSE /\ balance' = newBalance
              /\ storedBalance' = SavedBalance(isAuthenticated, newBalance)
              /\ simulationResults' = allResults
              /\ betSlip' = << >>
              /\ isSimulating' = FALSE
              /\ simRun' = Undefined
  /\ UNCHANGED <<match, source, op, result, call, isAuthenticated, stake, simulations, isSimMode,
                 pendingBets, clock, runs>>
  /\ UNCHANGED feedVars

\* the Won and Lost buttons of a pending bet: settleBet(bet.id, won)
SettleBet(betId, won) ==
  /\ isAuthenticated
  /\ LET bet == FindBet(pendingBets, betId)
         newBalance == IF won THEN Add(balance, bet.potentialWin) ELSE balance
     IN  /\ bet # Undefined
         /\ balance' = newBalance
         /\ storedBalance' = SavedBalance(isAuthenticated, newBalance)
         /\ pendingBets' = WithoutId(pendingBets, betId)
  /\ op' = "settleBet"
  /\ call' = [betId |-> betId, won |-> won]
  /\ UNCHANGED <<match, source, result, isAuthenticated, betSlip, stake, simulations,
                 isSimulating, isSimMode, simRun, simulationResults, clock, runs>>
  /\ UNCHANGED feedVars

ResetBalance ==
  /\ isAuthenticated
  /\ balance' = R(InitialBalance, 1)
  /\ storedBalance' = SavedBalance(isAuthenticated, R(InitialBalance, 1))
  /\ betSlip' = << >>
  /\ pendingBets' = << >>
  /\ op' = "resetBalance"
  /\ call' = Undefined
  /\ UNCHANGED <<match, source, result, isAuthenticated, stake, simulations, isSimulating,
                 isSimMode, simRun, simulationResults, clock, runs>>
  /\ UNCHANGED feedVars

NextApp ==
  \/ HandleLogin
  \/ HandleLogout
  \/ \E offer \in Offers : AddToBetSlip(offer)
  \/ RemoveFromBetSlip
  \/ ClearAll
  \/ SetStake
  \/ SetSimulations
  \/ SetIsSimMode
  \/ RunSimulation
  \/ \E response \in SimulationResponses : SimulateBetslipResponse(response)
  \/ \E k \in 1..Len(pendingBets), won \in BOOLEAN : SettleBet(pendingBets[k].id, won)
  \/ ResetBalance

SpecApp == InitApp /\ [][NextApp]_vars

\* the handlers of a session in which no bet is run or placed
NextBetSlip ==
  \/ HandleLogin
  \/ HandleLogout
  \/ \E offer \in Offers : AddToBetSlip(offer)
  \/ RemoveFromBetSlip
  \/ ClearAll
  \/ SetStake
  \/ SetSimulations
  \/ SetIsSimMode
  \/ ResetBalance

SpecBetSlip == InitApp /\ [][NextBetSlip]_vars

\* the betslips of one to MaxBetSlip selections the odds buttons can build
BetSlips ==
  LET Build(offers) ==
        [i \in 1..Len(offers) |->
           Selection(offers[i].matchId, offers[i].market, offers[i].side,
                     offers[i].odds, offers[i].point)]
      Distinct(slip) == \A i, j \in 1..Len(slip) : slip[i].id = slip[j].id => i = j
  IN  {slip \in {Build(offers) : offers \in UNION {[1..n -> Offers] : n \in 1..MaxBetSlip}} :
         Distinct(slip)}

\* a logged-in session in Sim mode with selections on the betslip, on the
\* initial balance or after ten bets of the default stake were lost
InitSim ==
  /\ match = ExampleMatch
  /\ source = "provider"
  /\ op = "none"
  /\ result = Undefined
  /\ call = Undefined
  /\ isAuthenticated = TRUE
  /\ balance \in {R(InitialBalance, 1), R(InitialBalance - 10 * DefaultStake, 1)}
  /\ storedBalance = balance
  /\ betSlip \in BetSlips
  /\ stake = R(DefaultStake, 1)
  /\ simulations = 1
  /\ isSimulating = FALSE
  /\ isSimMode = TRUE
  /\ pendingBets = << >>
  /\ simRun = Undefined
  /\ simulationResults = << >>
  /\ clock = 0
  /\ runs = 0
  /\ FeedLoaded

\* the handlers of a session that stays in Sim mode
NextSim ==
  \/ SetStake
  \/ SetSimulations
  \/ RunSimulation
  \/ \E response \in SimulationResponses : SimulateBetslipResponse(response)
  \/ ResetBalance

SpecSim == InitSim /\ [][NextSim]_vars

\* ------------------------------------------------------------------------
\* The odds feed of the App component: leagues, fetchOdds and its cache
\* ------------------------------------------------------------------------
\* const CACHE_TTL = 5 * 60 * 1000
CACHE_TTL == 300000
\* the most fetchOdds calls in one behaviour of the model
MaxFetches == 3

\* Date.now(): a millisecond, or one millisecond short of the TTL, after the last reading
DateNow(last) == {last + 1, last + CACHE_TTL - 1}

\* what one odds request can come back with: the transformed events, or a
\* response that is not OK or a thrown error (both end in the catch block)
OddsResponses(leagueKey) ==
  {[ok |-> TRUE, data |-> data] : data \in ProviderMatches(leagueKey)}
    \cup {[ok |-> FALSE, data |-> << >>]}

\* fetchOdds(): no leagueKey, forceRefresh takes its default
NoArguments == [forceRefresh |-> FALSE]

\* mutant: an entry whose age equals the TTL still counts as fresh (age <= CACHE_TTL)
fetchOddsFreshAtTTL(args, active) ==
  LET targetLeague == IF "leagueKey" \in DOMAIN args THEN args.leagueKey ELSE active
      forceRefresh == args.forceRefresh
      cached == cache[targetLeague]
      Request ==
        /\ isLoading' = TRUE
        /\ fetches' = fetches \cup {[id |-> fetchCalls + 1, targetLeague |-> targetLeague,
                                     cache |-> cache]}
        /\ UNCHANGED matches
  IN  /\ fetchCalls' = fetchCalls + 1
      /\ op' = "fetchOdds"
      /\ call' = args
      /\ IF ~forceRefresh /\ cached # Undefined
         THEN \E now \in DateNow(clock) :
                /\ clock' = now
                /\ IF now - cached.fetchedAt <= CACHE_TTL
                   THEN /\ matches' = cached.data
                        /\ UNCHANGED <<isLoading, fetches>>
                   ELSE Request
         ELSE /\ clock' = clock
              /\ Request
      /\ UNCHANGED cache

\* fetchOdds up to its await, called with the arguments args (leagueKey is
\* optional) in a render whose activeLeagueKey is active
fetchOdds(args, active) ==
  LET targetLeague == IF "leagueKey" \in DOMAIN args THEN args.leagueKey ELSE active
      forceRefresh == args.forceRefresh
      cached == cache[targetLeague]
      Request ==
        /\ isLoading' = TRUE
        /\ fetches' = fetches \cup {[id |-> fetchCalls + 1, targetLeague |-> targetLeague,
                                     cache |-> cache]}
        /\ UNCHANGED matches
  IN  /\ fetchCalls' = fetchCalls + 1
      /\ op' = "fetchOdds"
      /\ call' = args
      /\ IF ~forceRefresh /\ cached # Undefined
         THEN \E now \in DateNow(clock) :
                /\ clock' = now
                /\ IF now - cached.fetchedAt < CACHE_TTL
                   THEN /\ matches' = cached.data
                        /\ UNCHANGED <<isLoading, fetches>>
                   ELSE Request
         ELSE /\ clock' = clock
              /\ Request
      /\ UNCHANGED cache

\* the response of fetchLeagues arrives: setLeagues, and the effect on
\* [activeLeagueKey, leagues] calls fetchOdds() (a failed request changes nothing)
FetchLeaguesResponse ==
  /\ leagues = << >>
  /\ fetchCalls < MaxFetches
  /\ leagues' = LeagueList
  /\ fetchOdds(NoArguments, activeLeagueKey)
  /\ UNCHANGED <<match, source, result, betVars, activeLeagueKey>>

\* a league tab: setActiveLeagueKey, and when the key changed the effect on
\* [activeLeagueKey, leagues] calls fetchOdds()
HandleLeagueChange(leagueKey) ==
  /\ isAuthenticated
  /\ \E i \in 1..Len(leagues) : leagues[i] = leagueKey
  /\ activeLeagueKey' = leagueKey
  /\ IF leagueKey # activeLeagueKey
     THEN /\ fetchCalls < MaxFetches
          /\ fetchOdds(NoArguments, leagueKey)
     ELSE /\ op' = "handleLeagueChange"
          /\ call' = [leagueKey |-> leagueKey]
          /\ UNCHANGED <<clock, matches, cache, isLoading, fetches, fetchCalls>>
  /\ UNCHANGED <<match, source, result, betVars, leagues>>

\* the Refresh button (disabled while isLoading): fetchOdds(activeLeagueKey, true)
Refresh ==
  /\ isAuthenticated
  /\ ~isLoading
  /\ fetchCalls < MaxFetches
  /\ fetchOdds([leagueKey |-> activeLeagueKey, forceRefresh |-> TRUE], activeLeagueKey)
  /\ UNCHANGED <<match, source, result, betVars, leagues, activeLeagueKey>>

\* mutant: setIsLoading(false) follows the try block instead of standing in
\* its finally clause, so a failed request leaves the flag set
FetchOddsResponseWithoutFinally(fetch, response) ==
  /\ fetch \in fetches
  /\ response \in OddsResponses(fetch.targetLeague)
  /\ IF response.ok
     THEN \E now \in DateNow(clock) :
            /\ clock' = now
            /\ matches' = response.data
            /\ cache' = [fetch.cache EXCEPT ![fetch.targetLeague] =
                                              [data |-> response.data, fetchedAt |-> now]]
            /\ isLoading' = FALSE
     ELSE /\ matches' = << >>
          /\ UNCHANGED <<clock, cache, isLoading>>
  /\ fetches' = fetches \ {fetch}
  /\ UNCHANGED <<match, source, op, result, call, betVars, leagues, activeLeagueKey, fetchCalls>>

\* the awaited odds request of a fetchOdds call comes back: the call goes on
\* with the cache it captured when it started
FetchOddsResponse(fetch, response) ==
  /\ fetch \in fetches
  /\ response \in OddsResponses(fetch.targetLeague)
  /\ IF response.ok
     THEN \E now \in DateNow(clock) :
            /\ clock' = now
            /\ matches' = response.data
            /\ cache' = [fetch.cache EXCEPT
                           ![fetch.targetLeague] = [data |-> response.data, fetchedAt |-> now]]
     ELSE /\ matches' = << >>
          /\ UNCHANGED <<clock, cache>>
  /\ isLoading' = FALSE
  /\ fetches' = fetches \ {fetch}
  /\ UNCHANGED <<match, source, op, result, call, betVars, leagues, activeLeagueKey, fetchCalls>>

InitFeed ==
  /\ match = ExampleMatch
  /\ source = "provider"
  /\ op = "none"
  /\ result = Undefined
  /\ call = Undefined
  /\ AppInit
  /\ FeedInit

NextFeed ==
  \/ HandleLogin
  \/ FetchLeaguesResponse
  \/ \E leagueKey \in LeagueKeys : HandleLeagueChange(leagueKey)
  \/ Refresh
  \/ \E fetch \in fetches : \E response \in OddsResponses(fetch.targetLeague) :
       FetchOddsResponse(fetch, response)

SpecFeed == InitFeed /\ [][NextFeed]_vars

\* a logged-in session with one selection on the betslip, in Sim or in Real
\* mode with some number of simulations set, the odds of the first league on
\* display
InitLive ==
  /\ match = ExampleMatch
  /\ source = "provider"
  /\ op = "none"
  /\ result = Undefined
  /\ call = Undefined
  /\ isAuthenticated = TRUE
  /\ balance = R(InitialBalance, 1)
  /\ storedBalance = balance
  /\ betSlip = << Selection("m1", "h2h", "home", R(2, 1), Undefined) >>
  /\ stake = R(DefaultStake, 1)
  /\ simulations \in 1..MaxSimulations
  /\ isSimulating = FALSE
  /\ isSimMode \in BOOLEAN
  /\ pendingBets = << >>
  /\ simRun = Undefined
  /\ simulationResults = << >>
  /\ clock = 0
  /\ runs = 0
  /\ FeedLoaded

\* running the betslip while leagues are switched and their odds fetched
NextLive ==
  \/ RunSimulation
  \/ \E response \in SimulationResponses : SimulateBetslipResponse(response)
  \/ \E leagueKey \in LeagueKeys : HandleLeagueChange(leagueKey)
  \/ \E fetch \in fetches : \E response \in OddsResponses(fetch.targetLeague) :
       FetchOddsResponse(fetch, response)

\* every awaited fetch() settles: the promise of a request in flight is
\* eventually fulfilled or rejected, and its continuation then runs.  For the
\* simulation requests weak fairness is written out, <>[]ENABLED => []<>step,
\* with ENABLED of the response step given by its guard, simRun # Undefined
SpecLive ==
  /\ InitLive
  /\ [][NextLive]_vars
  /\ WF_vars(\E fetch \in fetches : \E response \in OddsResponses(fetch.targetLeague) :
               FetchOddsResponse(fetch, response))
  /\ \/ []<>(simRun = Undefined)
     \/ []<><<\E response \in SimulationResponses : SimulateBetslipResponse(response)>>_vars

\* the odds buttons of the matches on display: the home price of a win
\* market and the over price of a totals market
DisplayedOffers(ms) ==
  UNION { (IF ms[i].h2h # Undefined
           THEN {[matchId |-> ms[i].id, market |-> "h2h", side |-> "home",
                  odds |-> ms[i].h2h.home, point |-> Undefined]}
           ELSE {})
          \cup
          (IF ms[i].totals # Undefined
           THEN {[matchId |-> ms[i].id, market |-> "totals", side |-> "over",
                  odds |-> ms[i].totals.over, point |-> ms[i].totals.point]}
           ELSE {}) : i \in 1..Len(ms) }

\* a Sim-mode session in which selections are picked from the matches on
\* display and the league is switched, up to the posting of the first
\* simulation request
NextPayload ==
  \/ HandleLogin
  \/ \E offer \in DisplayedOffers(matches) : AddToBetSlip(offer)
  \/ \E leagueKey \in LeagueKeys : HandleLeagueChange(leagueKey)
  \/ \E fetch \in fetches : \E response \in OddsResponses(fetch.targetLeague) :
       FetchOddsResponse(fetch, response)
  \/ RunSimulation

SpecPayload == InitApp /\ [][NextPayload]_vars

\* ------------------------------------------------------------------------
\* Properties
\* ------------------------------------------------------------------------
Called(f) == op = f

HasThreeWayH2h == match.h2h # Undefined /\ match.h2h.draw # Undefined

WinOnly == match.h2h # Undefined /\ match.totals = Undefined /\ match.bothTeamsToScore = Undefined

HomeWins(list) == {i \in 1..Len(list) : list[i].home_score > list[i].away_score}
Draws(list) == {i \in 1..Len(list) : list[i].home_score = list[i].away_score}
AwayWins(list) == {i \in 1..Len(list) : list[i].home_score < list[i].away_score}

\* C1: on a three-way win market with no totals and no both-teams-to-score
\* market, oddsToProbabilities returns exactly 18 entries, 7 home wins, 4 draws
\* and 7 away wins, whose probabilities sum to 1.
C1_WinOnlyHas18EntriesSummingToOne ==
  (Called("oddsToProbabilities") /\ WinOnly /\ HasThreeWayH2h) =>
     /\ Len(result) = 18
     /\ Cardinality(HomeWins(result)) = 7
     /\ Cardinality(Draws(result)) = 4
     /\ Cardinality(AwayWins(result)) = 7
     /\ SumProb(result) = One

C1_Witness ==
  /\ Called("oddsToProbabilities") /\ WinOnly
  /\ match.h2h = ExampleH2h
  /\ Len(result) = 18

\* C2: without a win market oddsToProbabilities returns the empty list,
\* whatever totals or both-teams-to-score markets are present.
C2_NoH2hGivesEmptyList ==
  (Called("oddsToProbabilities") /\ match.h2h = Undefined) => result = << >>

C2_Witness ==
  /\ Called("oddsToProbabilities")
  /\ match.h2h = Undefined
  /\ match.totals # Undefined
  /\ match.bothTeamsToScore # Undefined
  /\ result = << >>

\* the catalogue of section 4.2: the weight of scoreline h-a within its class
CatalogueWeight(h, a) ==
  LET lo == IF h < a THEN h ELSE a
      hi == IF h < a THEN a ELSE h
  IN  IF hi = lo
      THEN (IF hi = 0 THEN R(30, 100) ELSE IF hi = 1 THEN R(40, 100)
            ELSE IF hi = 2 THEN R(20, 100) ELSE R(10, 100))
      ELSE IF hi = 1 THEN R(35, 100)
      ELSE IF hi = 2 THEN (IF lo = 0 THEN R(20, 100) ELSE R(18, 100))
      ELSE IF hi = 3 THEN (IF lo = 2 THEN R(3, 100) ELSE R(10, 100))
      ELSE R(4, 100)

\* 1/odds of one class divided by the sum of the 1/odds of the class odds present
ClassNormalized(h2h, class) ==
  LET inv(o) == IF o = Undefined THEN Zero ELSE Div(One, o)
      sum == Add(Add(inv(h2h.home), inv(h2h.draw)), inv(h2h.away))
  IN  Div(inv(h2h[class]), sum)

ClassOf(sp) ==
  IF sp.home_score > sp.away_score THEN "home"
  ELSE IF sp.home_score = sp.away_score THEN "draw" ELSE "away"

SumOver(list, idx) == SumProb(SelectSeq(list, LAMBDA sp : \E i \in idx : list[i] = sp))

\* C3: in the base distribution every entry's probability is its class's
\* normalized implied probability times the scoreline's catalogue weight, each
\* class's entries sum to the class's normalized probability, and for
\* {home 2, draw 3, away 4} the entry 1-0 has probability (6/13) * 0.35.
C3_BaseIsClassProbabilityTimesWeight ==
  (Called("oddsToProbabilities") /\ WinOnly) =>
     /\ \A i \in 1..Len(result) :
          result[i].probability =
            Mul(ClassNormalized(match.h2h, ClassOf(result[i])),
                CatalogueWeight(result[i].home_score, result[i].away_score))
     /\ SumOver(result, HomeWins(result)) = ClassNormalized(match.h2h, "home")
     /\ SumOver(result, Draws(result)) = ClassNormalized(match.h2h, "draw")
     /\ SumOver(result, AwayWins(result)) = ClassNormalized(match.h2h, "away")
     /\ match.h2h = ExampleH2h =>
          \E i \in 1..Len(result) :
             /\ result[i].home_score = 1 /\ result[i].away_score = 0
             /\ result[i].probability = Mul(R(6, 13), R(35, 100))

C3_Witness ==
  /\ Called("oddsToProbabilities") /\ WinOnly
  /\ match.h2h = ExampleH2h
  /\ result[1] = [home_score |-> 1, away_score |-> 0, probability |-> R(21, 130)]

WithoutTotals(markets) == [markets EXCEPT !.totals = Undefined]

\* C4: a totals market with over odds equal to under odds is a no-op, at every
\* point: the result equals, entry by entry, the result without the totals market.
C4_NeutralTotalsIsNoOp ==
  (/\ Called("oddsToProbabilities") /\ match.h2h # Undefined
   /\ match.totals # Undefined /\ match.totals.over = match.totals.under) =>
     result = oddsToProbabilities(WithoutTotals(match))

\* C5: generateMissingMarkets is idempotent: called on its own output it
\* returns a value structurally equal to that output.
C5_GenerateIsIdempotent ==
  (Called("generateMissingMarkets") /\ source = "generated") => result = match

C5_Witness ==
  /\ Called("generateMissingMarkets") /\ source = "generated"
  /\ match.h2h # Undefined
  /\ match.totals # Undefined /\ match.totals.point # R(25, 10)
  /\ match.correctScore # Undefined
  /\ result = match

\* C6: when the input carries a bothTeamsToScore market, the output's
\* bothTeamsToScore is that same market.
C6_InputBttsIsKept ==
  (Called("generateMissingMarkets") /\ match.bothTeamsToScore # Undefined) =>
     result.bothTeamsToScore = match.bothTeamsToScore

\* C7: the output's h2h is the input's h2h, and when the input has a totals
\* market the output's totals is that market.
C7_H2hAndTotalsPassThrough ==
  Called("generateMissingMarkets") =>
     /\ result.h2h = match.h2h
     /\ match.totals # Undefined => result.totals = match.totals

C7_Witness ==
  /\ Called("generateMissingMarkets") /\ source = "provider"
  /\ match.h2h = ExampleH2h
  /\ match.totals # Undefined /\ match.totals.point = R(2, 1)
  /\ result.totals = match.totals

\* hp and ap of the synthesis formulas; 0.33 each without a win market
ImpliedOrDefault(m, side) == IF m.h2h = Undefined THEN R(33, 100) ELSE Div(One, m.h2h[side])

\* p = 0.4 + 0.3 (min(hp, ap) / max(hp, ap)) + 0.2 ((hp + ap) / 2)
ExpectedBttsProbability(m) ==
  LET hp == ImpliedOrDefault(m, "home")
      ap == ImpliedOrDefault(m, "away")
      lo == IF Less(hp, ap) THEN hp ELSE ap
      hi == IF Less(hp, ap) THEN ap ELSE hp
  IN  Add(R(4, 10), Add(Mul(R(3, 10), Div(lo, hi)), Mul(R(2, 10), Div(Add(hp, ap), R(2, 1)))))

\* C8: the synthesized both-teams-to-score odds are yes = 1.05 / p and
\* no = 1.05 / (1 - p) with p given by the balance formula, hp = ap = 0.33 being
\* used when the input has no win market.
C8_SynthesizedBttsFormula ==
  Called("generateMissingMarkets") =>
     LET p == ExpectedBttsProbability(match)
     IN  /\ result.bothTeamsToScore.yes = Div(R(105, 100), p)
         /\ result.bothTeamsToScore.no = Div(R(105, 100), Sub(One, p))
         /\ match.h2h = Undefined => p = R(766, 1000)

C8_Witness ==
  /\ Called("generateMissingMarkets") /\ source = "provider"
  /\ match.h2h = ExampleH2h
  /\ result.bothTeamsToScore.yes = Div(R(105, 100), R(5, 8))

C8_WitnessNoH2h ==
  /\ Called("generateMissingMarkets")
  /\ match.h2h = Undefined
  /\ result.bothTeamsToScore.yes = Div(R(105, 100), R(766, 1000))

\* q = 0.3 + 0.4 ((hp + ap) / 2) - 0.2 dp, dp being 0.34 without draw odds
ExpectedOver25Probability(m) ==
  LET hp == Div(One, m.h2h.home)
      ap == Div(One, m.h2h.away)
      dp == IF m.h2h.draw = Undefined THEN R(34, 100) ELSE Div(One, m.h2h.draw)
  IN  Sub(Add(R(3, 10), Mul(R(4, 10), Div(Add(hp, ap), R(2, 1)))), Mul(R(2, 10), dp))

\* C9: a totals market is synthesized exactly when the input has no totals
\* market and has a win market; it has point 2.5, over = 1.05 / q and
\* under = 1.05 / (1 - q); with neither market the output has no totals market.
C9_TotalsSynthesizedWhenAbsentWithH2h ==
  Called("generateMissingMarkets") =>
     /\ (match.totals = Undefined /\ match.h2h # Undefined) =>
          LET q == ExpectedOver25Probability(match)
          IN  result.totals = [point |-> R(25, 10),
                               over |-> Div(R(105, 100), q),
                               under |-> Div(R(105, 100), Sub(One, q))]
     /\ match.totals # Undefined => result.totals = match.totals
     /\ (match.totals = Undefined /\ match.h2h = Undefined) => result.totals = Undefined

C9_Witness ==
  /\ Called("generateMissingMarkets")
  /\ match.h2h = ExampleH2h
  /\ match.totals = Undefined
  /\ result.totals.point = R(25, 10)
  /\ result.totals.over = Div(R(105, 100), R(23, 60))

\* the fixed per-scoreline weights of the correct-score catalogue, in its order
CorrectScoreWeights ==
  << R(20, 100), R(15, 100), R(15, 100), R(30, 100), R(12, 100), R(12, 100),
     R(18, 100), R(18, 100), R(20, 100), R(8, 100), R(8, 100), R(10, 100),
     R(10, 100), R(5, 100), R(3, 100), R(3, 100) >>

\* C10: each of the 16 catalogue scorelines gets a pre-normalization
\* probability equal to one of the home, away or draw implied probabilities
\* times that scoreline's fixed weight.
C10_EachScoreIsOneClassTimesWeight ==
  (Called("generateMissingMarkets") /\ match.h2h # Undefined) =>
     LET hp == Div(One, match.h2h.home)
         ap == Div(One, match.h2h.away)
         dp == IF match.h2h.draw = Undefined THEN R(34, 100) ELSE Div(One, match.h2h.draw)
         cs == commonScores(match)
     IN  /\ Len(cs) = 16
         /\ Len(result.correctScore.scores) = 16
         /\ \A i \in 1..16 :
              \E x \in {hp, ap, dp} : cs[i].prob = Mul(x, CorrectScoreWeights[i])

TwoWayH2h == match.h2h # Undefined /\ match.h2h.draw = Undefined

\* the sum of the 16 correct-score probabilities with a draw probability of 0.34
TwoWayCorrectScoreTotal(m) ==
  LET hp == Div(One, m.h2h.home)
      ap == Div(One, m.h2h.away)
  IN  Add(Mul(R(71, 100), Add(hp, ap)), Mul(R(34, 100), R(70, 100)))

\* C11: a win market without draw odds is handled without error and
\* asymmetrically: generateMissingMarkets uses a draw probability of 0.34 in its
\* totals and correct-score heuristics, oddsToProbabilities a draw probability of
\* 0, so the four draw scorelines get probability 0 and the 18 entries sum to 1.
C11_TwoWayMarketAsymmetry ==
  /\ (Called("generateMissingMarkets") /\ TwoWayH2h) =>
       LET hp == Div(One, match.h2h.home)
           ap == Div(One, match.h2h.away)
           q == Sub(Add(R(3, 10), Mul(R(4, 10), Div(Add(hp, ap), R(2, 1)))),
                    Mul(R(2, 10), R(34, 100)))
       IN  /\ match.totals = Undefined => result.totals.over = Div(R(105, 100), q)
           /\ result.correctScore.scores[1] =
                [score |-> "0-0",
                 odds |-> Div(R(11, 10),
                              Div(Mul(R(34, 100), R(20, 100)), TwoWayCorrectScoreTotal(match)))]
  /\ (Called("oddsToProbabilities") /\ TwoWayH2h) =>
       /\ Len(result) = 18
       /\ Cardinality(Draws(result)) = 4
       /\ \A i \in Draws(result) : result[i].probability = Zero
       /\ SumProb(result) = One

C11_WitnessGenerate ==
  /\ Called("generateMissingMarkets") /\ TwoWayH2h
  /\ source = "provider"
  /\ match.totals = Undefined
  /\ result.totals.point = R(25, 10)

C11_Witness ==
  /\ Called("oddsToProbabilities") /\ TwoWayH2h
  /\ match.totals # Undefined /\ match.bothTeamsToScore # Undefined
  /\ result[8] = [home_score |-> 0, away_score |-> 0, probability |-> Zero]

\* the scorelines of section 4.2 in insertion order: home wins, draws, away wins
CatalogueScores ==
  << <<1, 0>>, <<2, 0>>, <<2, 1>>, <<3, 0>>, <<3, 1>>, <<4, 0>>, <<3, 2>>,
     <<0, 0>>, <<1, 1>>, <<2, 2>>, <<3, 3>>,
     <<0, 1>>, <<0, 2>>, <<1, 2>>, <<0, 3>>, <<1, 3>>, <<0, 4>>, <<2, 3>> >>

\* (1/a) / (1/a + 1/b)
NormalizedFirst(a, b) == Div(Div(One, a), Add(Div(One, a), Div(One, b)))

\* 0.5 + 0.5 p
HalfPlusHalf(p) == Add(R(1, 2), Mul(R(1, 2), p))

\* the multipliers of totals conditioning above and below the point
OverMultiplier(totals) == HalfPlusHalf(NormalizedFirst(totals.over, totals.under))
UnderMultiplier(totals) == HalfPlusHalf(Sub(One, NormalizedFirst(totals.over, totals.under)))

\* the multipliers of both-teams-to-score conditioning
BothScoreMultiplier(btts) == HalfPlusHalf(NormalizedFirst(btts.yes, btts.no))
NotBothScoreMultiplier(btts) == HalfPlusHalf(Sub(One, NormalizedFirst(btts.yes, btts.no)))

\* a list divided by its sum
DividedBySum(list) ==
  LET entries == SubSeq(list, 1, Len(list))
      sum == SumProb(entries)
  IN  [i \in 1..Len(entries) |-> [entries[i] EXCEPT !.probability = Div(@, sum)]]

\* the distribution the contract of section 4.2 describes, step by step
ContractBase(m) ==
  LET home == ClassNormalized(m.h2h, "home")
      draw == ClassNormalized(m.h2h, "draw")
      away == ClassNormalized(m.h2h, "away")
  IN  [i \in 1..18 |->
         LET h == CatalogueScores[i][1]
             a == CatalogueScores[i][2]
             class == IF h > a THEN home ELSE IF h = a THEN draw ELSE away
         IN  [home_score |-> h, away_score |-> a,
              probability |-> Mul(class, CatalogueWeight(h, a))]]

ContractAfterTotals(m) ==
  LET base == ContractBase(m)
      over == OverMultiplier(m.totals)
      under == UnderMultiplier(m.totals)
  IN  IF m.totals = Undefined THEN base
      ELSE DividedBySum([i \in 1..18 |->
             LET entry == base[i]
                 goals == entry.home_score + entry.away_score
             IN  [entry EXCEPT !.probability =
                    Mul(@, IF goals * m.totals.point.d > m.totals.point.n THEN over
                           ELSE IF goals * m.totals.point.d < m.totals.point.n THEN under
                           ELSE One)]])

ContractAfterBtts(m) ==
  LET list == ContractAfterTotals(m)
      both == BothScoreMultiplier(m.bothTeamsToScore)
      notBoth == NotBothScoreMultiplier(m.bothTeamsToScore)
  IN  IF m.bothTeamsToScore = Undefined THEN list
      ELSE DividedBySum([i \in 1..18 |->
             LET entry == list[i]
             IN  [entry EXCEPT !.probability =
                    Mul(@, IF entry.home_score > 0 /\ entry.away_score > 0
                           THEN both ELSE notBoth)]])

\* C12: with a totals market each base probability is multiplied by
\* 0.5 + 0.5 normOver above the point, by 0.5 + 0.5 (1 - normOver) below it and
\* by 1 at the point, and the list is then divided by its sum, so it sums to 1.
C12_TotalsConditioning ==
  (/\ Called("oddsToProbabilities") /\ match.h2h # Undefined
   /\ match.totals # Undefined /\ match.bothTeamsToScore = Undefined) =>
     /\ result = ContractAfterTotals(match)
     /\ SumProb(result) = One

C12_Witness ==
  /\ Called("oddsToProbabilities")
  /\ match.h2h = ExampleH2h
  /\ match.totals = [point |-> R(2, 1), over |-> R(3, 2), under |-> R(2, 1)]
  /\ match.bothTeamsToScore = Undefined
  /\ Len(result) = 18 /\ SumProb(result) = One

\* C13: with a bothTeamsToScore market every entry in which both teams score
\* is multiplied by 0.5 + 0.5 normYes and every other entry by
\* 0.5 + 0.5 (1 - normYes), after totals conditioning, and the list is then
\* divided by its sum, so the returned 18 entries sum to 1.
C13_BttsConditioning ==
  (/\ Called("oddsToProbabilities") /\ match.h2h # Undefined
   /\ match.bothTeamsToScore # Undefined) =>
     /\ result = ContractAfterBtts(match)
     /\ Len(result) = 18
     /\ SumProb(result) = One

C13_Witness ==
  /\ Called("oddsToProbabilities")
  /\ match.h2h = ExampleH2h
  /\ match.totals # Undefined
  /\ match.bothTeamsToScore = [yes |-> R(3, 2), no |-> R(2, 1)]
  /\ Len(result) = 18 /\ SumProb(result) = One

WithoutBtts(markets) == [markets EXCEPT !.bothTeamsToScore = Undefined]

\* C14: a bothTeamsToScore market with yes odds equal to no odds is a no-op:
\* the result equals, entry by entry, the result without that market.
C14_NeutralBttsIsNoOp ==
  (/\ Called("oddsToProbabilities") /\ match.h2h # Undefined
   /\ match.bothTeamsToScore # Undefined
   /\ match.bothTeamsToScore.yes = match.bothTeamsToScore.no) =>
     result = oddsToProbabilities(WithoutBtts(match))

C14_Witness ==
  /\ Called("oddsToProbabilities")
  /\ match.h2h = ExampleH2h
  /\ match.totals # Undefined /\ match.totals.point = R(2, 1)
  /\ match.bothTeamsToScore = [yes |-> R(2, 1), no |-> R(2, 1)]
  /\ Len(result) = 18

\* the list handed to the last renormalization of oddsToProbabilities
LastAdjusted(m) ==
  IF m.bothTeamsToScore # Undefined
  THEN BttsAdjust(AfterTotals(m), m.bothTeamsToScore)
  ELSE TotalsAdjust(AfterTotals(WithoutTotals(m)), m.totals)

\* the list handed to the renormalization of oddsToScoreProbabilitiesWithTotals
ConverterAdjusted(m) ==
  ConverterTotalsAdjust(oddsToScoreProbabilities(m.h2h.home, m.h2h.draw, m.h2h.away),
                        m.totals.point, m.totals.over, m.totals.under)

\* C15: normalizing a list whose sum is zero returns the list unchanged, with
\* no division by zero, at every renormalization step of the engine.
C15_ZeroSumListIsLeftUnchanged ==
  /\ (/\ Called("oddsToProbabilities") /\ match.h2h # Undefined
      /\ (match.totals # Undefined \/ match.bothTeamsToScore # Undefined)
      /\ SumProb(LastAdjusted(match)) = Zero) =>
        result = LastAdjusted(match)
  /\ (/\ Called("oddsToScoreProbabilitiesWithTotals") /\ match.totals # Undefined
      /\ SumProb(ConverterAdjusted(match)) = Zero) =>
        result = ConverterAdjusted(match)

\* the total probability of the scorelines with more goals than the point
OverMass(list, point) ==
  SumProb(SelectSeq(list, LAMBDA sp : (sp.home_score + sp.away_score) * point.d > point.n))

\* the total probability of the scorelines in which both teams score
BothScoreMass(list) ==
  SumProb(SelectSeq(list, LAMBDA sp : sp.home_score > 0 /\ sp.away_score > 0))

\* C17: for fixed win odds and totals point, a totals market with a higher
\* normOver never gives the scorelines above the point less total probability,
\* and a bothTeamsToScore market with a higher normYes never gives the
\* scorelines in which both teams score less total probability.
C17_MonotoneInEachSignal ==
  (Called("oddsToProbabilities") /\ match.h2h # Undefined) =>
     /\ match.totals # Undefined =>
          LET normOver == NormalizedFirst(match.totals.over, match.totals.under)
              overMass == OverMass(result, match.totals.point)
          IN  \A t \in TotalsMarkets :
                (t.point = match.totals.point
                   /\ Less(normOver, NormalizedFirst(t.over, t.under))) =>
                  ~Less(OverMass(oddsToProbabilities([match EXCEPT !.totals = t]), t.point),
                        overMass)
     /\ match.bothTeamsToScore # Undefined =>
          LET normYes == NormalizedFirst(match.bothTeamsToScore.yes, match.bothTeamsToScore.no)
              bothScoreMass == BothScoreMass(result)
          IN  \A b \in BttsMarkets :
                Less(normYes, NormalizedFirst(b.yes, b.no)) =>
                  ~Less(BothScoreMass(oddsToProbabilities([match EXCEPT !.bothTeamsToScore = b])),
                        bothScoreMass)

C17_Witness ==
  /\ Called("oddsToProbabilities") /\ source = "provider"
  /\ match.h2h = ExampleH2h
  /\ match.totals = [point |-> R(2, 1), over |-> R(2, 1), under |-> R(3, 2)]
  /\ match.bothTeamsToScore = [yes |-> R(2, 1), no |-> R(3, 2)]
  /\ Less(OverMass(result, R(2, 1)),
          OverMass(oddsToProbabilities([match EXCEPT !.totals.over = R(3, 2)]), R(2, 1)))
  /\ Less(BothScoreMass(result),
          BothScoreMass(oddsToProbabilities([match EXCEPT !.bothTeamsToScore.yes = R(3, 2)])))

\* the numeral of a point that is a whole or a half number, as the provider quotes them
PointText(point) ==
  IF point.d = 1 THEN ToString(point.n) ELSE ToString(point.n \div 2) \o ".5"

\* C16: convertMarketToAPI is a fixed mapping of its arguments: (h2h, home / draw /
\* away) gives market 1X2 with outcome 1 / X / 2; (totals, side, point) gives
\* over_under with outcome side_point, such as over_2.5; (btts, yes / no) gives
\* both_teams_to_score with outcome yes / no; (correct_score, s) gives
\* correct_score with outcome s.
C16_ConvertMarketToAPIIsAFixedMapping ==
  Called("convertMarketToAPI") =>
    /\ (call.market = "h2h" /\ call.side \in {"home", "draw", "away"}) =>
         result = [market |-> "1X2",
                   outcome |-> CASE call.side = "home" -> "1"
                                 [] call.side = "draw" -> "X"
                                 [] call.side = "away" -> "2"]
    /\ (call.market = "totals" /\ call.point # Undefined) =>
         result = [market |-> "over_under",
                   outcome |-> call.side \o "_" \o PointText(call.point)]
    /\ (call.market = "btts" /\ call.side \in {"yes", "no"}) =>
         result = [market |-> "both_teams_to_score", outcome |-> call.side]
    /\ call.market = "correct_score" =>
         result = [market |-> "correct_score", outcome |-> call.side]

C16_Witness ==
  /\ Called("convertMarketToAPI")
  /\ call = [market |-> "totals", side |-> "over", point |-> R(5, 2)]
  /\ result = [market |-> "over_under", outcome |-> "over_2.5"]

\* C18: a Sim-mode runSimulation that applies its net profit after its last request
\* adds it to the balance of that moment, so that a change settleBet or
\* resetBalance made while it was awaiting its requests is kept.
C18_BalanceUpdatesAreAtomic ==
  [][\A response \in SimulationResponses :
       (SimulateBetslipResponse(response) /\ simRun' = Undefined) =>
         balance' = Add(balance,
                        netProfit(IF response.ok THEN Append(simRun.allResults, response.result)
                                  ELSE simRun.allResults,
                                  simRun.stake, simRun.simulations))]_vars

\* C19: a bet in pendingBets is still there after every step other than settleBet
\* called with its id.
C19_PendingBetsPersistUntilSettled ==
  [][\A k \in 1..Len(pendingBets) :
       \/ \E won \in BOOLEAN : SettleBet(pendingBets[k].id, won)
       \/ \E j \in 1..Len(pendingBets') : pendingBets'[j] = pendingBets[k]]_vars

NoDuplicateIds ==
  \A i, j \in 1..Len(betSlip) : i # j => betSlip[i].id # betSlip[j].id

\* C20: no two selections of betSlip ever share an id, and addToBetSlip called
\* with a selection whose id is already on the betslip leaves betSlip unchanged.
C20_DuplicateSelectionsArePrevented ==
  /\ []NoDuplicateIds
  /\ [][\A offer \in Offers :
         (AddToBetSlip(offer)
            /\ HasId(betSlip, SelectionId(offer.matchId, offer.market, offer.side, offer.point)))
           => betSlip' = betSlip]_vars

\* the h2h selection was added again at another price after a totals selection:
\* the betslip still holds the first price, and the ids are as the claim writes them
C20_Witness ==
  /\ Called("addToBetSlip")
  /\ call = [matchId |-> "m1", market |-> "h2h", side |-> "home", odds |-> R(3, 1),
             point |-> Undefined]
  /\ Len(betSlip) = 2
  /\ betSlip[1].id = "m1-h2h-home-0" /\ betSlip[1].odds = R(2, 1)
  /\ betSlip[2].id = "m2-totals-over-2.5"

\* the product of the odds of the selections, 1 for none
RECURSIVE ProductOfOdds(_)
ProductOfOdds(selections) ==
  IF selections = << >> THEN One
  ELSE Mul(selections[1].odds, ProductOfOdds(Tail(selections)))

\* the list without its k-th element
RemoveAt(list, k) == SubSeq(list, 1, k - 1) \o SubSeq(list, k + 1, Len(list))

\* C21: placing a Real-mode bet lowers the balance by exactly the stake, appends
\* one pending bet whose potentialWin is the stake times the product of the
\* selections' odds and empties the betslip; settling a pending bet raises the
\* balance by that bet's potentialWin if won and leaves it if lost, and removes
\* exactly that bet from pendingBets, the others staying as they were.
C21_RealModeBetAccounting ==
  [][/\ (RunSimulation /\ ~isSimMode /\ ~NotPositive(stake)) =>
          /\ balance' = Sub(balance, stake)
          /\ Len(pendingBets') = Len(pendingBets) + 1
          /\ SubSeq(pendingBets', 1, Len(pendingBets)) = pendingBets
          /\ pendingBets'[Len(pendingBets')].potentialWin = Mul(stake, ProductOfOdds(betSlip))
          /\ betSlip' = << >>
     /\ \A k \in 1..Len(pendingBets), won \in BOOLEAN :
          SettleBet(pendingBets[k].id, won) =>
            /\ balance' = IF won THEN Add(balance, pendingBets[k].potentialWin) ELSE balance
            /\ pendingBets' = RemoveAt(pendingBets, k)]_vars

\* C23: oddsToScoreProbabilitiesWithTotals called with a match's win odds and
\* the point, over and under odds of its totals market returns the list
\* oddsToProbabilities returns for {h2h, totals}, at every point, and called
\* without totals arguments the list oddsToProbabilities returns for {h2h}.
C23_NarrowVariantAgreesWithDistributor ==
  Called("oddsToScoreProbabilitiesWithTotals") =>
    result = oddsToProbabilities([h2h |-> match.h2h, totals |-> match.totals,
                                  bothTeamsToScore |-> Undefined, correctScore |-> Undefined])

\* a finite number above 0
Positive(x) == IsFinite(x) /\ Less(Zero, x)

\* a finite number in [lo, hi]
Within(x, lo, hi) == IsFinite(x) /\ ~Less(x, lo) /\ ~Less(hi, x)

\* the factors a conditioning step applied: after / before, entry by entry,
\* for the entries whose probability was not 0
Multipliers(before, after) ==
  {Div(after[i].probability, before[i].probability) :
     i \in {j \in 1..Len(before) : before[j].probability # Zero}}

\* 1/home + 1/draw + 1/away, the draw term being 0 without draw odds
ImpliedTotal(h2h) ==
  Add(Add(Div(One, h2h.home), IF h2h.draw = Undefined THEN Zero ELSE Div(One, h2h.draw)),
      Div(One, h2h.away))

\* every entry has a probability in [0, 1] and scores that are natural numbers
EntriesAreProbabilities(list) ==
  \A i \in 1..Len(list) :
    /\ Within(list[i].probability, Zero, One)
    /\ list[i].home_score \in Nat /\ list[i].away_score \in Nat

\* C24: with odds above 1 in every present market, every divisor of a
\* normalization in oddsToProbabilities and oddsToScoreProbabilitiesWithTotals is
\* above 0, every conditioning multiplier lies in [0.5, 1], and every returned
\* entry has a probability in [0, 1] and scores that are non-negative integers.
C24_DivisorsPositiveProbabilitiesInUnitInterval ==
  /\ (Called("oddsToProbabilities") /\ match.h2h # Undefined) =>
       LET base == AfterTotals(WithoutTotals(match))
           totalsAdjusted == TotalsAdjust(base, match.totals)
           afterTotals == AfterTotals(match)
           bttsAdjusted == BttsAdjust(afterTotals, match.bothTeamsToScore)
       IN  /\ Positive(ImpliedTotal(match.h2h))
           /\ match.totals # Undefined =>
                /\ Positive(Add(Div(One, match.totals.over), Div(One, match.totals.under)))
                /\ \A x \in Multipliers(base, totalsAdjusted) : Within(x, Half, One)
                /\ Positive(SumProb(totalsAdjusted))
           /\ match.bothTeamsToScore # Undefined =>
                /\ Positive(Add(Div(One, match.bothTeamsToScore.yes),
                                Div(One, match.bothTeamsToScore.no)))
                /\ \A x \in Multipliers(afterTotals, bttsAdjusted) : Within(x, Half, One)
                /\ Positive(SumProb(bttsAdjusted))
           /\ EntriesAreProbabilities(result)
  /\ Called("oddsToScoreProbabilitiesWithTotals") =>
       LET base == oddsToScoreProbabilities(match.h2h.home, match.h2h.draw, match.h2h.away)
       IN  /\ Positive(ImpliedTotal(match.h2h))
           /\ match.totals # Undefined =>
                /\ Positive(Add(Div(One, match.totals.over), Div(One, match.totals.under)))
                /\ \A x \in Multipliers(base, ConverterAdjusted(match)) : Within(x, Half, One)
                /\ Positive(SumProb(ConverterAdjusted(match)))
           /\ EntriesAreProbabilities(result)

\* both conditioning steps ran on a three-way market and applied factors
\* strictly between 0.5 and 1
C24_Witness ==
  /\ Called("oddsToProbabilities")
  /\ match.h2h = ExampleH2h
  /\ match.totals = [point |-> R(5, 2), over |-> R(3, 2), under |-> R(2, 1)]
  /\ match.bothTeamsToScore = [yes |-> R(2, 1), no |-> R(3, 2)]
  /\ Multipliers(AfterTotals(WithoutTotals(match)), TotalsAdjust(AfterTotals(WithoutTotals(match)), match.totals))
       = {R(11, 14), R(5, 7)}
  /\ Len(result) = 18 /\ EntriesAreProbabilities(result)

\* a finite number above 1
ValidOdds(x) == IsFinite(x) /\ Less(One, x)

\* C25: on a win market with odds above 1, with or without draw odds, the
\* synthesized both-teams-to-score probability and over-2.5 probability lie
\* strictly between 0 and 1, and every synthesized odds value (yes, no, over,
\* under and the 16 correct-score odds) is finite and above 1.
C25_SynthesizedOddsAreValid ==
  (Called("generateMissingMarkets") /\ match.h2h # Undefined) =>
     LET p == ExpectedBttsProbability(match)
         q == ExpectedOver25Probability(match)
     IN  /\ Positive(p) /\ Less(p, One)
         /\ Positive(q) /\ Less(q, One)
         /\ ValidOdds(result.bothTeamsToScore.yes) /\ ValidOdds(result.bothTeamsToScore.no)
         /\ match.totals = Undefined =>
              ValidOdds(result.totals.over) /\ ValidOdds(result.totals.under)
         /\ Len(result.correctScore.scores) = 16
         /\ \A i \in 1..Len(result.correctScore.scores) :
              ValidOdds(result.correctScore.scores[i].odds)

\* all three markets were synthesized from a win market without draw odds
C25_Witness ==
  /\ Called("generateMissingMarkets") /\ source = "provider"
  /\ TwoWayH2h /\ match.h2h.home = R(2, 1) /\ match.h2h.away = R(3, 1)
  /\ match.totals = Undefined /\ match.bothTeamsToScore = Undefined
  /\ ValidOdds(result.totals.over) /\ ValidOdds(result.bothTeamsToScore.no)
  /\ result.correctScore.scores[14].score = "3-2"
  /\ ValidOdds(result.correctScore.scores[14].odds)

\* the probability a list gives the scoreline h-a, 0 when it has no such entry
ScoreProbability(list, h, a) ==
  SumProb(SelectSeq(list, LAMBDA sp : sp.home_score = h /\ sp.away_score = a))

\* the markets with the home and away odds of the win market exchanged
SwapHomeAway(m) ==
  IF m.h2h = Undefined THEN m
  ELSE [m EXCEPT !.h2h = [home |-> m.h2h.away, draw |-> m.h2h.draw, away |-> m.h2h.home]]

\* C26: with the home and away odds exchanged, oddsToProbabilities gives the
\* scoreline a-b the probability it gives b-a with the original odds, whatever
\* totals and both-teams-to-score markets are present.
C26_SwappingHomeAndAwayMirrors ==
  Called("oddsToProbabilities") =>
     LET swapped == oddsToProbabilities(SwapHomeAway(match))
     IN  /\ Len(swapped) = Len(result)
         /\ \A i \in 1..Len(result) :
              ScoreProbability(swapped, result[i].away_score, result[i].home_score)
                = result[i].probability
         /\ \A i \in 1..Len(swapped) :
              ScoreProbability(result, swapped[i].away_score, swapped[i].home_score)
                = swapped[i].probability

\* an asymmetric win market with both other markets present: 1-0 and 0-1 differ
C26_Witness ==
  /\ Called("oddsToProbabilities")
  /\ match.h2h = ExampleH2h
  /\ match.totals # Undefined /\ match.bothTeamsToScore # Undefined
  /\ Less(ScoreProbability(result, 0, 1), ScoreProbability(result, 1, 0))
  /\ ScoreProbability(oddsToProbabilities(SwapHomeAway(match)), 0, 1)
       = ScoreProbability(result, 1, 0)

\* C22: a fetchOdds call makes no API request and shows the cached matches
\* exactly when it is not a forced refresh and the cache has an entry for the
\* target league whose age, now - fetchedAt, is below the 5-minute TTL; in every
\* other case it sends a request for the target league, and a successful
\* response stores its matches under that league's key with fetchedAt = now.
C22_CacheServesFreshEntriesOnly ==
  [][/\ (op' = "fetchOdds" /\ fetchCalls' = fetchCalls + 1) =>
          LET targetLeague == IF "leagueKey" \in DOMAIN call' THEN call'.leagueKey
                              ELSE activeLeagueKey'
              entry == cache[targetLeague]
              fresh == /\ ~call'.forceRefresh
                       /\ entry # Undefined
                       /\ clock' - entry.fetchedAt < 5 * 60 * 1000
          IN  /\ fresh <=> fetches' = fetches
              /\ fresh => matches' = entry.data
              /\ ~fresh => /\ Cardinality(fetches') = Cardinality(fetches) + 1
                           /\ \A fetch \in fetches' \ fetches : fetch.targetLeague = targetLeague
     /\ \A fetch \in fetches : \A response \in OddsResponses(fetch.targetLeague) :
          (FetchOddsResponse(fetch, response) /\ response.ok) =>
            cache'[fetch.targetLeague] = [data |-> response.data, fetchedAt |-> clock']]_vars

\* the league tab of a league cached one millisecond short of the TTL ago was
\* pressed: its cached matches are shown and no request is in flight
C22_Witness ==
  /\ Called("fetchOdds") /\ call = NoArguments
  /\ fetchCalls > 1
  /\ fetches = {}
  /\ cache[activeLeagueKey] # Undefined
  /\ clock - cache[activeLeagueKey].fetchedAt = 5 * 60 * 1000 - 1
  /\ matches = cache[activeLeagueKey].data

\* C27: whenever no fetchOdds call is awaiting its response, the matches on
\* display are matches of the active league: a response for a league requested
\* earlier does not replace them after the user has selected another league.
C27_DisplayedMatchesBelongToActiveLeague ==
  fetches = {} => \A i \in 1..Len(matches) : matches[i].league = activeLeagueKey

\* sum of actual_payout over the results with bet_slip_won, from the first on
RECURSIVE WonPayouts(_)
WonPayouts(results) ==
  IF results = << >> THEN Zero
  ELSE Add(IF Head(results).bet_slip_won THEN Head(results).actual_payout ELSE Zero,
           WonPayouts(Tail(results)))

\* the results returned so far once this response is in: a thrown request and
\* a non-OK response return none
ReturnedWith(response) ==
  IF ~response.threw /\ response.ok THEN Append(simRun.allResults, response.result)
  ELSE simRun.allResults

\* C28: when the last of the N requests of a Sim-mode runSimulation is in, the
\* balance becomes the balance the run started with plus the sum of
\* actual_payout over the returned results with bet_slip_won, minus stake x N
\* with N the requested number (failed and non-OK requests included), and the
\* betslip is empty; before that the run changes neither.
C28_SimRunChargesEveryRequestedSimulation ==
  [][\A response \in SimulationResponses :
       SimulateBetslipResponse(response) =>
         IF simRun.i + 1 < simRun.simulations
         THEN /\ simRun'.allResults = ReturnedWith(response)
              /\ balance' = balance /\ betSlip' = betSlip
         ELSE /\ balance' = Add(simRun.balance,
                                Sub(WonPayouts(ReturnedWith(response)),
                                    Mul(simRun.stake, R(simRun.simulations, 1))))
              /\ simulationResults' = ReturnedWith(response)
              /\ betSlip' = << >>]_vars

\* a run of two simulations at stake 100 of which one request failed and the
\* other won 250 has ended: 50000 + 250 - 200
C28_Witness ==
  /\ runs = 1 /\ simRun = Undefined /\ ~isSimulating
  /\ simulationResults = << [bet_slip_won |-> TRUE, actual_payout |-> R(250, 1)] >>
  /\ balance = R(50050, 1)
  /\ betSlip = << >>

\* the selection's match is among the loaded matches and has a win market
LoadedWithH2h(sel) ==
  \E i \in 1..Len(matches) : matches[i].id = sel.matchId /\ matches[i].h2h # Undefined

\* the positions of a payload list whose entry names the match
EntriesOf(list, matchId) == {i \in 1..Len(list) : list[i].match_id = matchId}

\* C29: in the payload a Sim-mode runSimulation builds, the match_id of every
\* bet_slip entry names exactly one entry of the matches list, and that entry
\* carries a score distribution (a non-empty list of probabilities summing to
\* 1); a selection whose match is not loaded or has no h2h market has no entry
\* in either list.
C29_PayloadMatchesCoverBetSlipOnce ==
  [][(simRun = Undefined /\ simRun' # Undefined) =>
       /\ \A i \in 1..Len(simRun'.bet_slip) :
            LET named == EntriesOf(simRun'.matches, simRun'.bet_slip[i].match_id)
            IN  /\ Cardinality(named) = 1
                /\ \A j \in named :
                     /\ Len(simRun'.matches[j].score_probabilities) > 0
                     /\ SumProb(simRun'.matches[j].score_probabilities) = One
       /\ \A k \in 1..Len(betSlip) :
            ~LoadedWithH2h(betSlip[k]) =>
              /\ EntriesOf(simRun'.matches, betSlip[k].matchId) = {}
              /\ EntriesOf(simRun'.bet_slip, betSlip[k].matchId) = {}]_vars

\* runSimulation was called on a betslip with the over of m2, which has no win
\* market, and the home win of m1: the payload holds m1 once and that selection
C29_Witness ==
  /\ Called("runSimulation") /\ simRun # Undefined
  /\ Len(betSlip) = 2 /\ betSlip[1].matchId = "m2" /\ betSlip[2].matchId = "m1"
  /\ Len(simRun.matches) = 1 /\ simRun.matches[1].match_id = "m1"
  /\ simRun.bet_slip = << [match_id |-> "m1", market |-> "1X2", outcome |-> "1", odds |-> R(2, 1)] >>

\* C30: whenever isSimulating is true it is eventually false again, whatever
\* the simulation requests come back with, and a Real-mode runSimulation leaves
\* it false; whenever isLoading is true it is eventually false again, whether
\* the odds request succeeds or fails.
C30_BusyFlagsAreEventuallyCleared ==
  /\ isSimulating ~> ~isSimulating
  /\ isLoading ~> ~isLoading
  /\ [][(RunSimulation /\ ~isSimMode) => ~isSimulating']_vars

\* a Sim-mode run whose only request threw or was refused has ended, and so
\* has an odds request that failed: both flags are down again
C30_Witness ==
  /\ runs = 1 /\ pendingBets = << >> /\ simulationResults = << >>
  /\ balance = R(49900, 1) /\ simRun = Undefined /\ ~isSimulating
  /\ fetchCalls > 1 /\ fetches = {} /\ matches = << >> /\ ~isLoading

====
